---- MODULE Spec2Model ----
(***************************************************************************)
(* A model of pebble's memTable (two arena skiplists, reference counting,  *)
(* the prepare/apply protocol and the cache of fragmented range            *)
(* tombstones).  The memtable is the record m; every operation of the Go   *)
(* code is a step operator over (m, locals), used one shared-memory access *)
(* at a time by the concurrent specifications and run to completion by the *)
(* sequential one.                                                         *)
(***************************************************************************)
EXTENDS Integers, Sequences, FiniteSets, TLC

VARIABLES m, wl, rl, hist, lit

vars == <<m, wl, rl, hist, lit>>

(***************************************************************************)
(* Bounds of the model.                                                    *)
(***************************************************************************)
MaxKey == 1          \* user keys are 0..MaxKey; 0 is the empty key
MaxVal == 1          \* values are 0..MaxVal; 0 is the empty (nil) value
MaxSeqNum == 1       \* sequence numbers handed to set/apply are 0..MaxSeqNum
MaxBatchLen == 2     \* entries per batch
MaxCount == 3        \* no call is started once tombstones.count is MaxCount
MaxSlack == 1        \* bytes by which a node may fall short of MaxNodeSize
MaxCalls == 2        \* prepare calls per writer
MaxExtra == 1        \* references held at a time by holders other than the writers
MaxDrops == 2        \* references such holders drop in all
MaxRogue == 1        \* unref calls made without a reference
MaxReads == 2        \* newRangeDelIter calls per reader
SeqMemTableSize == 28    \* o.MemTableSize of the sequential specification
ApplyMemTableSize == 40  \* o.MemTableSize of the specification of one apply
ProtoMemTableSize == 40  \* o.MemTableSize of the prepare/apply protocol
CacheMemTableSize == 40  \* o.MemTableSize of the tombstone cache
MaxFragKey == 5      \* start and end keys of the fragmented tombstones are 0..MaxFragKey
MaxFragLen == 3      \* tombstones per fragmented batch
FragMemTableSize == 40   \* o.MemTableSize of the fragmentation specification
MaxLevelKey == 1     \* user keys of the level's files are 0..MaxLevelKey
MaxFiles == 2        \* files of the level
InternalKeySeqNumMax == 3    \* stands for 2^56 - 1; entries carry smaller sequence numbers
MaxFaults == 1       \* calls of the level iterator during which a collaborator fails

(***************************************************************************)
(* Program constants.                                                      *)
(***************************************************************************)
InternalKeyKindDelete == 0
InternalKeyKindSet == 1
InternalKeyKindMerge == 2
InternalKeyKindRangeDelete == 15
TrailerLen == 8
EmptySize == 4
MaxNodeOverhead == 2

UserKeys == 0..MaxKey
Values == 0..MaxVal
SeqNums == 0..MaxSeqNum
PointKinds == {InternalKeyKindDelete, InternalKeyKindSet, InternalKeyKindMerge}
Kinds == PointKinds \cup {InternalKeyKindRangeDelete}

(***************************************************************************)
(* Internal keys.  An entry of a skiplist is an internal key and a value.  *)
(***************************************************************************)
Trailer(seq, kind) == seq * 256 + kind

MakeInternalKey(ukey, seq, kind, value) ==
    [ukey |-> ukey, seq |-> seq, kind |-> kind, value |-> value]

EntryTrailer(e) == Trailer(e.seq, e.kind)

\* db.InternalCompare: user key ascending, then trailer descending.
InternalLess(a, b) ==
    \/ a.ukey < b.ukey
    \/ a.ukey = b.ukey /\ EntryTrailer(a) > EntryTrailer(b)

SameInternalKey(a, b) == a.ukey = b.ukey /\ EntryTrailer(a) = EntryTrailer(b)

KeyLen(k) == IF k = 0 THEN 0 ELSE 1

\* A range tombstone's value is its end key; a point entry's is a value.
ValueLen(kind, v) == IF v = 0 THEN 0 ELSE 1

(***************************************************************************)
(* The arena and the skiplist.                                             *)
(***************************************************************************)
MaxNodeSize(keyBytes, valueBytes) == MaxNodeOverhead + keyBytes + valueBytes

memTableEntrySize(keyBytes, valueBytes) ==
    MaxNodeSize(keyBytes + TrailerLen, valueBytes)

\* The bytes a node really takes: slack is the part of the tower not allocated.
NodeSize(e, slack) ==
    memTableEntrySize(KeyLen(e.ukey), ValueLen(e.kind, e.value)) - slack

Insert(list, e) ==
    LET k == Cardinality({i \in 1..Len(list) : InternalLess(list[i], e)})
    IN  SubSeq(list, 1, k) \o <<e>> \o SubSeq(list, k + 1, Len(list))

\* Skiplist.Add on list over an arena of size arenaSize and the given capacity.
SklAdd(list, arenaSize, capacity, e, slack) ==
    IF \E i \in 1..Len(list) : SameInternalKey(list[i], e)
    THEN [err |-> "ErrRecordExists", list |-> list, arenaSize |-> arenaSize]
    ELSE IF arenaSize + NodeSize(e, slack) > capacity
    THEN [err |-> "ErrArenaFull", list |-> list, arenaSize |-> arenaSize]
    ELSE [err |-> "nil", list |-> Insert(list, e),
          arenaSize |-> arenaSize + NodeSize(e, slack)]

\* Iterator.SeekGE(key): the index of the first entry whose user key is >=
\* key, or 0 when there is none.
SklSeekGE(list, key) ==
    LET ge == {i \in 1..Len(list) : list[i].ukey >= key}
    IN  IF ge = {} THEN 0 ELSE CHOOSE i \in ge : \A j \in ge : i <= j

(***************************************************************************)
(* The memtable.                                                           *)
(***************************************************************************)
NilPtr == [id |-> <<0, 0>>, v |-> <<>>]

newMemTable(MemTableSize) ==
    [skl |-> <<>>, rangeDelSkl |-> <<>>, capacity |-> MemTableSize,
     arenaSize |-> EmptySize, emptySize |-> EmptySize, reserved |-> 0,
     refs |-> 1, count |-> 0, vals |-> NilPtr]

\* get without the test for a DELETE.
get_NoDeleteCheck(mt, key) ==
    LET i == SklSeekGE(mt.skl, key)
    IN  IF i = 0 THEN [err |-> "ErrNotFound", value |-> 0]
        ELSE IF mt.skl[i].ukey # key THEN [err |-> "ErrNotFound", value |-> 0]
        ELSE [err |-> "nil", value |-> mt.skl[i].value]

get(mt, key) ==
    LET i == SklSeekGE(mt.skl, key)
    IN  IF i = 0 THEN [err |-> "ErrNotFound", value |-> 0]
        ELSE IF mt.skl[i].ukey # key THEN [err |-> "ErrNotFound", value |-> 0]
        ELSE IF mt.skl[i].kind = InternalKeyKindDelete
        THEN [err |-> "ErrNotFound", value |-> 0]
        ELSE [err |-> "nil", value |-> mt.skl[i].value]

\* count(): a First/Next scan of the point iterator.
count_Both(mt) == Len(mt.skl) + Len(mt.rangeDelSkl)

count(mt) == Len(mt.skl)

\* A memtable that looks at the point skiplist alone.
empty_PointOnly(mt) == mt.skl = <<>>

empty(mt) == mt.arenaSize = mt.emptySize

readyForFlush(mt) == mt.refs = 0

(***************************************************************************)
(* Batches.  A batch is the sequence of its entries (kind, ukey, value).   *)
(***************************************************************************)
BatchEntry(kind, ukey, value) == [kind |-> kind, ukey |-> ukey, value |-> value]

RECURSIVE BatchMemTableSize(_)
BatchMemTableSize(b) ==
    IF b = <<>> THEN 0
    ELSE memTableEntrySize(KeyLen(Head(b).ukey), ValueLen(Head(b).kind, Head(b).value))
         + BatchMemTableSize(Tail(b))

BatchCount(b) == Len(b)

(***************************************************************************)
(* Writers.  wl[w] holds the locals of the call writer w is in; pc is the  *)
(* next shared-memory access of that call.                                 *)
(***************************************************************************)
NoEntry == MakeInternalKey(0, 0, InternalKeyKindDelete, 0)

\* calls counts the prepare calls made; reserved0 is m.reserved at the entry
\* of the prepare call, refs1 whether that call loaded refs == 1, snap the
\* a.Size() it then stored.
WriterIdle ==
    [pc |-> "idle", op |-> "none", batch |-> <<>>, startSeqNum |-> 0,
     seqNum |-> 0, i |-> 0, key |-> NoEntry, err |-> "nil", held |-> FALSE,
     calls |-> 0, reserved0 |-> 0, refs1 |-> FALSE, snap |-> 0]

\* A call returns: the caller of prepare/apply goes on to unref when it holds
\* the reference prepare took.
Return(l, err) ==
    [WriterIdle EXCEPT !.pc = IF l.held THEN "unref" ELSE "idle",
                       !.op = l.op, !.err = err, !.held = l.held,
                       !.calls = l.calls, !.reserved0 = l.reserved0,
                       !.refs1 = l.refs1, !.snap = l.snap]

\* memTable.set
SetAdd(mt, l, slack) ==
    IF l.key.kind = InternalKeyKindRangeDelete
    THEN LET r == SklAdd(mt.rangeDelSkl, mt.arenaSize, mt.capacity, l.key, slack)
         IN  [m |-> [mt EXCEPT !.rangeDelSkl = r.list, !.arenaSize = r.arenaSize],
              l |-> IF r.err # "nil" THEN Return(l, r.err)
                    ELSE [l EXCEPT !.pc = "setCount"]]
    ELSE LET r == SklAdd(mt.skl, mt.arenaSize, mt.capacity, l.key, slack)
         IN  [m |-> [mt EXCEPT !.skl = r.list, !.arenaSize = r.arenaSize],
              l |-> Return(l, r.err)]

SetCount(mt, l) ==
    [m |-> [mt EXCEPT !.count = mt.count + 1], l |-> [l EXCEPT !.pc = "setStore"]]

SetStore(mt, l) ==
    [m |-> [mt EXCEPT !.vals = NilPtr], l |-> Return(l, "nil")]

\* batch.iter().next() at position i of batch b.
BatchIterNext(b, i) ==
    IF i > Len(b) THEN [ok |-> FALSE, ent |-> BatchEntry(0, 0, 0)]
    ELSE [ok |-> TRUE, ent |-> b[i]]

\* The loop of apply going on after a failed insert of a point entry and
\* returning the error once the batch is exhausted.
ApplyNext_DeferErr(mt, l, next, cnt, slack) ==
    IF ~next.ok
    THEN [m |-> mt,
          l |-> IF l.err # "nil" THEN Return(l, l.err)
                ELSE IF l.seqNum # l.startSeqNum + cnt
                THEN [l EXCEPT !.pc = "panic"]
                ELSE Return(l, "nil")]
    ELSE LET ent  == next.ent
             ikey == MakeInternalKey(ent.ukey, l.seqNum, ent.kind, ent.value)
         IN  IF ent.kind = InternalKeyKindRangeDelete
             THEN LET r == SklAdd(mt.rangeDelSkl, mt.arenaSize, mt.capacity,
                                  ikey, slack)
                  IN  [m |-> [mt EXCEPT !.rangeDelSkl = r.list,
                                        !.arenaSize = r.arenaSize],
                       l |-> [l EXCEPT !.pc = "applyCount", !.err = r.err]]
             ELSE LET r == SklAdd(mt.skl, mt.arenaSize, mt.capacity, ikey, slack)
                  IN  [m |-> [mt EXCEPT !.skl = r.list, !.arenaSize = r.arenaSize],
                       l |-> [l EXCEPT !.i = l.i + 1, !.seqNum = l.seqNum + 1,
                                       !.err = IF l.err # "nil" THEN l.err
                                               ELSE r.err]]

\* memTable.apply: one iteration of the loop up to its first shared access;
\* next is what iter.next() returns, cnt is batch.count().
ApplyNext(mt, l, next, cnt, slack) ==
    IF ~next.ok
    THEN [m |-> mt,
          l |-> IF l.seqNum # l.startSeqNum + cnt
                THEN [l EXCEPT !.pc = "panic"]
                ELSE Return(l, "nil")]
    ELSE LET ent  == next.ent
             ikey == MakeInternalKey(ent.ukey, l.seqNum, ent.kind, ent.value)
         IN  IF ent.kind = InternalKeyKindRangeDelete
             THEN LET r == SklAdd(mt.rangeDelSkl, mt.arenaSize, mt.capacity,
                                  ikey, slack)
                  IN  [m |-> [mt EXCEPT !.rangeDelSkl = r.list,
                                        !.arenaSize = r.arenaSize],
                       l |-> [l EXCEPT !.pc = "applyCount", !.err = r.err]]
             ELSE LET r == SklAdd(mt.skl, mt.arenaSize, mt.capacity, ikey, slack)
                  IN  [m |-> [mt EXCEPT !.skl = r.list, !.arenaSize = r.arenaSize],
                       l |-> IF r.err # "nil" THEN Return(l, r.err)
                             ELSE [l EXCEPT !.i = l.i + 1,
                                            !.seqNum = l.seqNum + 1]]

ApplyCount(mt, l) ==
    [m |-> [mt EXCEPT !.count = mt.count + 1], l |-> [l EXCEPT !.pc = "applyStore"]]

\* The RANGEDEL branch leaving the loop's seqNum++ out.
ApplyStore_KeepSeq(mt, l) ==
    [m |-> [mt EXCEPT !.vals = NilPtr],
     l |-> IF l.err # "nil" THEN Return(l, l.err)
           ELSE [l EXCEPT !.pc = "applyNext", !.i = l.i + 1]]

ApplyStore(mt, l) ==
    [m |-> [mt EXCEPT !.vals = NilPtr],
     l |-> IF l.err # "nil" THEN Return(l, l.err)
           ELSE [l EXCEPT !.pc = "applyNext", !.i = l.i + 1,
                          !.seqNum = l.seqNum + 1]]

\* memTable.prepare
\* prepare storing a.Size() whatever the reference count.
PrepLoad_AlwaysSnap(mt, l) ==
    [m |-> mt, l |-> [l EXCEPT !.pc = "prepSnap", !.refs1 = (mt.refs = 1)]]

PrepLoad(mt, l) ==
    [m |-> mt,
     l |-> [l EXCEPT !.pc = IF mt.refs = 1 THEN "prepSnap" ELSE "prepCheck",
                     !.refs1 = (mt.refs = 1)]]

PrepSnap(mt, l) ==
    [m |-> [mt EXCEPT !.reserved = mt.arenaSize],
     l |-> [l EXCEPT !.pc = "prepCheck", !.snap = mt.arenaSize]]

\* prepare adding the batch to reserved before the test of avail.
PrepCheck_ReserveFirst(mt, l) ==
    LET size == BatchMemTableSize(l.batch)
    IN  IF mt.reserved <= mt.capacity /\ size > mt.capacity - mt.reserved
        THEN [m |-> [mt EXCEPT !.reserved = mt.reserved + size],
              l |-> Return(l, "ErrArenaFull")]
        ELSE [m |-> [mt EXCEPT !.reserved = mt.reserved + size],
              l |-> [l EXCEPT !.pc = "prepRef"]]

\* avail is a uint32: with reserved above the capacity the subtraction wraps to
\* a value no batch of the model exceeds.
PrepCheck(mt, l) ==
    LET wraps == mt.reserved > mt.capacity
        avail == mt.capacity - mt.reserved
    IN  IF ~wraps /\ BatchMemTableSize(l.batch) > avail
        THEN [m |-> mt, l |-> Return(l, "ErrArenaFull")]
        ELSE [m |-> [mt EXCEPT !.reserved = mt.reserved + BatchMemTableSize(l.batch)],
              l |-> [l EXCEPT !.pc = "prepRef"]]

\* memTable.ref
ref(mt) == [mt EXCEPT !.refs = mt.refs + 1]

\* prepare returning without m.ref().
PrepRef_NoRef(mt, l) ==
    [m |-> mt,
     l |-> [l EXCEPT !.pc = "prepared", !.held = TRUE, !.reserved0 = 0,
                     !.refs1 = FALSE, !.snap = 0]]

PrepRef(mt, l) ==
    [m |-> ref(mt),
     l |-> [l EXCEPT !.pc = "prepared", !.held = TRUE, !.reserved0 = 0,
                     !.refs1 = FALSE, !.snap = 0]]

\* memTable.unref: the new count; the call panics when it is negative and
\* returns whether it is 0 otherwise.
unref(mt) == [mt EXCEPT !.refs = mt.refs - 1]

\* unref without the case v < 0.
UnrefResult_NoPanic(v) == IF v <= 0 THEN "true" ELSE "false"

UnrefResult(v) == IF v < 0 THEN "panic" ELSE IF v = 0 THEN "true" ELSE "false"

WriterUnref(mt, l) ==
    [m |-> unref(mt),
     l |-> [WriterIdle EXCEPT
              !.pc = IF UnrefResult(unref(mt).refs) = "panic" THEN "panic"
                     ELSE "idle",
              !.calls = l.calls]]

\* The step of writer locals l at its pc.
WStep(mt, l, slack) ==
    CASE l.pc = "setAdd"     -> SetAdd(mt, l, slack)
      [] l.pc = "setCount"   -> SetCount(mt, l)
      [] l.pc = "setStore"   -> SetStore(mt, l)
      [] l.pc = "applyNext"  -> ApplyNext(mt, l, BatchIterNext(l.batch, l.i),
                                          BatchCount(l.batch), slack)
      [] l.pc = "applyCount" -> ApplyCount(mt, l)
      [] l.pc = "applyStore" -> ApplyStore(mt, l)
      [] l.pc = "prepLoad"   -> PrepLoad(mt, l)
      [] l.pc = "prepSnap"   -> PrepSnap(mt, l)
      [] l.pc = "prepCheck"  -> PrepCheck(mt, l)
      [] l.pc = "prepRef"    -> PrepRef(mt, l)
      [] l.pc = "unref"      -> WriterUnref(mt, l)
      [] OTHER               -> [m |-> mt, l |-> l]

InSet(l) == l.pc \in {"setAdd", "setCount", "setStore"}
InApply(l) == l.pc \in {"applyNext", "applyCount", "applyStore"}
InPrepare(l) == l.pc \in {"prepLoad", "prepSnap", "prepCheck", "prepRef"}

\* A set or apply call run to its return by a caller nobody interleaves with.
RECURSIVE WRun(_, _, _)
WRun(mt, l, slack) ==
    IF ~(InSet(l) \/ InApply(l)) THEN [m |-> mt, l |-> l]
    ELSE LET r == WStep(mt, l, slack) IN WRun(r.m, r.l, slack)

PrepareCall(mt, l, batch) ==
    [WriterIdle EXCEPT !.pc = "prepLoad", !.op = "prepare", !.batch = batch,
                       !.calls = l.calls + 1, !.reserved0 = mt.reserved]

SetCall(key) == [WriterIdle EXCEPT !.pc = "setAdd", !.op = "set", !.key = key]

ApplyCall(l, batch, seqNum) ==
    [l EXCEPT !.pc = "applyNext", !.op = "apply", !.batch = batch,
              !.startSeqNum = seqNum, !.seqNum = seqNum, !.i = 1, !.err = "nil"]

(***************************************************************************)
(* rangedel.Fragmenter: the tombstones of list (start ascending, seq       *)
(* descending) split at every start and end coordinate, one fragment per   *)
(* covering sequence number, ordered by start ascending, seq descending.   *)
(***************************************************************************)
Coordinates(list) ==
    {list[i].ukey : i \in 1..Len(list)} \cup {list[i].value : i \in 1..Len(list)}

FragmentSet(list) ==
    LET cs == Coordinates(list)
    IN  {MakeInternalKey(c1, list[i].seq, InternalKeyKindRangeDelete, c2) :
           <<c1, c2, i>> \in
             {x \in cs \X cs \X (1..Len(list)) :
                /\ x[1] < x[2]
                /\ ~\E c \in cs : x[1] < c /\ c < x[2]
                /\ list[x[3]].ukey <= x[1]
                /\ x[2] <= list[x[3]].value}}

RECURSIVE SortEntries(_)
SortEntries(S) ==
    IF S = {} THEN <<>>
    ELSE LET e == CHOOSE x \in S : \A y \in S \ {x} : InternalLess(x, y)
         IN  <<e>> \o SortEntries(S \ {e})

Fragment(list) == SortEntries(FragmentSet(list))

(***************************************************************************)
(* rangedel.Fragmenter as it runs: pending holds the tombstones that share *)
(* the current start key, out what Emit has received.                      *)
(***************************************************************************)
FragmenterInit == [pending |-> <<>>, out |-> <<>>, panic |-> FALSE]

EntrySet(list) == {list[i] : i \in 1..Len(list)}

MinEnd(buf) == CHOOSE c \in {t.value : t \in buf} : \A t \in buf : c <= t.value

\* flush: split the buffered tombstones at each of their end keys in turn and
\* emit every piece, largest sequence number first.
RECURSIVE FragmenterFlush(_)
FragmenterFlush(buf) ==
    IF buf = {} THEN <<>>
    ELSE LET split == MinEnd(buf)
             flushBuf == {[t EXCEPT !.value = split] : t \in buf}
             rest == {[t EXCEPT !.ukey = split] : t \in {x \in buf : x.value > split}}
         IN  SortEntries(flushBuf) \o FragmenterFlush(rest)

\* truncateAndFlush: cut the pending tombstones at key, flush the parts
\* before it and keep the parts from key on.
FragmenterTruncateAndFlush(f, key) ==
    LET pend == EntrySet(f.pending)
        done == {IF key < t.value THEN [t EXCEPT !.value = key] ELSE t : t \in pend}
        kept == {[t EXCEPT !.ukey = key] : t \in {x \in pend : key < x.value}}
    IN  [f EXCEPT !.pending = SortEntries(kept),
                  !.out = f.out \o FragmenterFlush(done)]

\* Fragmenter.Add(start, end)
FragmenterAdd(f, e) ==
    IF f.pending = <<>> THEN [f EXCEPT !.pending = <<e>>]
    ELSE IF f.pending[1].ukey > e.ukey THEN [f EXCEPT !.panic = TRUE]
    ELSE IF f.pending[1].ukey = e.ukey
    THEN [f EXCEPT !.pending = Append(f.pending, e)]
    ELSE LET g == FragmenterTruncateAndFlush(f, e.ukey)
         IN  [g EXCEPT !.pending = Append(g.pending, e)]

\* Fragmenter.Finish()
FragmenterFinish(f) ==
    [f EXCEPT !.pending = <<>>,
              !.out = f.out \o FragmenterFlush(EntrySet(f.pending))]

\* The tombstones Emit has appended after Add of every entry of list and
\* Finish.
RECURSIVE FragmenterAddAll(_, _)
FragmenterAddAll(f, list) ==
    IF list = <<>> THEN f
    ELSE FragmenterAddAll(FragmenterAdd(f, Head(list)), Tail(list))

FragmenterRun(list) == FragmenterFinish(FragmenterAddAll(FragmenterInit, list)).out

(***************************************************************************)
(* Readers: memTable.newRangeDelIter, one shared-memory access per step.   *)
(* A pointer to a slice of fragments is the pair (id, v): id names the     *)
(* heap object (reader, call number), v is the slice it holds.             *)
(***************************************************************************)
ReaderIdle ==
    [pc |-> "idle", n |-> 0, ptr |-> NilPtr, tombstones |-> <<>>,
     old |-> NilPtr, acc |-> <<>>, ret |-> "none"]

IsNil(p) == p.id = <<0, 0>>

\* The call returns ret ("nil": no iterator, "iter": rangedel.NewIter over
\* tombstones).
RdReturn(l, ret, tombstones) ==
    [ReaderIdle EXCEPT !.n = l.n, !.ret = ret, !.tombstones = tombstones]

\* atomic.LoadUint32(&m.tombstones.count)
RdCount(mt, l) ==
    [m |-> mt,
     l |-> IF mt.count = 0 THEN RdReturn(l, "nil", <<>>)
           ELSE [l EXCEPT !.pc = "rdLoad"]]

\* tombstonesPtr := atomic.LoadPointer(&m.tombstones.vals)
RdLoad(mt, l) ==
    LET tombstones == IF ~IsNil(mt.vals) THEN mt.vals.v ELSE <<>>
    IN  [m |-> mt,
         l |-> IF tombstones = <<>>
               THEN [l EXCEPT !.pc = "rdIter", !.ptr = mt.vals,
                              !.tombstones = <<>>, !.acc = <<>>]
               ELSE RdReturn(l, "iter", tombstones)]

\* RdIter that hands out the skiplist's tombstones as they are, unfragmented.
RdIter_NoFragmenter(mt, l) ==
    LET seen == Len(l.acc)
        rest == {i \in 1..Len(mt.rangeDelSkl) :
                   seen = 0 \/ InternalLess(l.acc[seen], mt.rangeDelSkl[i])}
    IN  [m |-> mt,
         l |-> IF rest # {}
               THEN LET i == CHOOSE x \in rest : \A y \in rest : x <= y
                    IN  [l EXCEPT !.acc = Append(l.acc, mt.rangeDelSkl[i])]
               ELSE [l EXCEPT !.pc = "rdLoopLoad", !.tombstones = l.acc]]

\* it.Next() over the range-del skiplist and frag.Add; frag.Finish() when the
\* iterator is exhausted.
RdIter(mt, l) ==
    LET seen == Len(l.acc)
        rest == {i \in 1..Len(mt.rangeDelSkl) :
                   seen = 0 \/ InternalLess(l.acc[seen], mt.rangeDelSkl[i])}
    IN  [m |-> mt,
         l |-> IF rest # {}
               THEN LET i == CHOOSE x \in rest : \A y \in rest : x <= y
                    IN  [l EXCEPT !.acc = Append(l.acc, mt.rangeDelSkl[i])]
               ELSE [l EXCEPT !.pc = "rdLoopLoad",
                              !.tombstones = FragmenterRun(l.acc)]]

\* oldPtr := atomic.LoadPointer(&m.tombstones.vals) and the length test, which
\* dereferences tombstonesPtr.
RdLoopLoad(mt, l) ==
    [m |-> mt,
     l |-> IF ~IsNil(mt.vals)
           THEN IF IsNil(l.ptr)
                THEN [l EXCEPT !.pc = "panic", !.old = mt.vals]
                ELSE IF Len(l.tombstones) < Len(l.ptr.v)
                THEN RdReturn(l, "iter", l.tombstones)
                ELSE [l EXCEPT !.pc = "rdCAS", !.old = mt.vals]
           ELSE [l EXCEPT !.pc = "rdCAS", !.old = mt.vals]]

NewPtr(r, l) == [id |-> <<r, l.n>>, v |-> l.tombstones]

\* atomic.CompareAndSwapPointer(&m.tombstones.vals, oldPtr, newPtr)
RdCAS(mt, l, r) ==
    IF mt.vals = l.old
    THEN [m |-> [mt EXCEPT !.vals = NewPtr(r, l)],
          l |-> RdReturn(l, "iter", l.tombstones)]
    ELSE [m |-> mt, l |-> [l EXCEPT !.pc = "rdLoopLoad"]]

RStep(mt, l, r) ==
    CASE l.pc = "rdCount"    -> RdCount(mt, l)
      [] l.pc = "rdLoad"     -> RdLoad(mt, l)
      [] l.pc = "rdIter"     -> RdIter(mt, l)
      [] l.pc = "rdLoopLoad" -> RdLoopLoad(mt, l)
      [] l.pc = "rdCAS"      -> RdCAS(mt, l, r)
      [] OTHER               -> [m |-> mt, l |-> l]

InRead(l) == l.pc \in {"rdCount", "rdLoad", "rdIter", "rdLoopLoad", "rdCAS"}

RECURSIVE RRun(_, _, _)
RRun(mt, l, r) ==
    IF ~InRead(l) THEN [m |-> mt, l |-> l]
    ELSE LET x == RStep(mt, l, r) IN RRun(x.m, x.l, r)

RangeDelIterCall(l) ==
    [ReaderIdle EXCEPT !.pc = "rdCount", !.n = l.n + 1]

(***************************************************************************)
(* levelIter.  The iterator, its files, the slot rangeDelIter points to    *)
(* and the record of the last call are the record lit; every method is an  *)
(* operator from the iterator to the iterator after it and its result.     *)
(* Indices are the code's (0-based); log lists the files opened and closed *)
(* by the call.                                                            *)
(***************************************************************************)
InternalKeyRangeDeleteSentinel ==
    Trailer(InternalKeySeqNumMax, InternalKeyKindRangeDelete)

\* db.InvalidInternalKey; also stands for a nil boundary.
InvalidInternalKey ==
    MakeInternalKey(0 - 1, 0, InternalKeyKindDelete, 0)

NilIter == [file |-> 0 - 1, pos |-> 0, closed |-> FALSE]
NilSlot == 0 - 1
NoBound == 0 - 1
NilErr == [kind |-> "nil", file |-> 0 - 1]

\* What the collaborators answer during one call: newIters succeeds, fails
\* or returns no point iterator; Close of a file iterator and of a range-del
\* iterator fail or not; a file iterator that was closed still answers
\* (zombie) or reports invalid.
OkOracle == [open |-> "ok", closeErr |-> FALSE, rdCloseErr |-> FALSE,
             zombie |-> FALSE]

Log(l, ev) == [l EXCEPT !.log = Append(@, ev)]

\* newIters(f, opts) for the file at index.
newIters(l, index, o) ==
    LET f == l.files[index + 1]
        rd == IF InternalKeyKindRangeDelete \in {f.smallest.kind, f.largest.kind}
              THEN index ELSE NilSlot
    IN  CASE o.open = "ok" ->
               [iter |-> [file |-> index, pos |-> 0, closed |-> FALSE],
                rangeDelIter |-> rd, err |-> NilErr]
          [] o.open = "err" ->
               [iter |-> NilIter, rangeDelIter |-> NilSlot,
                err |-> [kind |-> "open", file |-> index]]
          [] OTHER ->
               [iter |-> NilIter, rangeDelIter |-> rd, err |-> NilErr]

\* l.iter.Close()
IterClose(l, o) ==
    [l |-> Log([l EXCEPT !.iter.closed = TRUE], <<"close", l.iter.file>>),
     err |-> IF o.closeErr THEN [kind |-> "close", file |-> l.iter.file]
             ELSE NilErr]

\* The file iterator's SeekGE, SeekLT, First, Last, Next and Prev over the
\* point entries of its file; pos 0 is before the first entry.
IterMove(l, op, key, o) ==
    IF l.iter.closed /\ ~o.zombie THEN [l |-> l, ret |-> FALSE]
    ELSE LET keys == l.files[l.iter.file + 1].keys
             n == Len(keys)
             p == l.iter.pos
             below == Cardinality({j \in 1..n : keys[j].ukey < key})
             q == CASE op = "SeekGE" -> below + 1
                    [] op = "SeekLT" -> below
                    [] op = "First" -> 1
                    [] op = "Last" -> n
                    [] op = "Next" -> IF p <= n THEN p + 1 ELSE p
                    [] OTHER -> IF p >= 1 THEN p - 1 ELSE p
         IN  [l |-> [l EXCEPT !.iter.pos = q], ret |-> q \in 1..n]

IterValid(l) == l.iter.pos \in 1..Len(l.files[l.iter.file + 1].keys)

\* sort.Search(n, f): the binary search as the library runs it; f is the set
\* of indices where the predicate holds.
RECURSIVE Search(_, _, _)
Search(i, j, f) ==
    IF i < j
    THEN LET h == (i + j) \div 2
         IN  IF h \notin f THEN Search(h + 1, j, f) ELSE Search(i, h, f)
    ELSE i

\* findFileGE without the test of the sentinel trailer.
findFileGE_AnyTrailer(l, key) ==
    Search(0, Len(l.files),
           {i \in 0..(Len(l.files) - 1) : l.files[i + 1].largest.ukey >= key})

findFileGE(l, key) ==
    Search(0, Len(l.files),
           {i \in 0..(Len(l.files) - 1) :
              LET largest == l.files[i + 1].largest
              IN  \/ largest.ukey > key
                  \/ /\ largest.ukey = key
                     /\ EntryTrailer(largest) # InternalKeyRangeDeleteSentinel})

findFileLT(l, key) ==
    Search(0, Len(l.files),
           {i \in 0..(Len(l.files) - 1) : l.files[i + 1].smallest.ukey >= key}) - 1

\* The for loop of loadFile.
\* The loop of loadFile without the tests against the bounds.
loadFileLoop_NoBounds(l0, index, dir, o) ==
    LET l == [l0 EXCEPT !.index = index]
    IN  IF index < 0 \/ index >= Len(l.files) THEN [l |-> l, ret |-> FALSE]
        ELSE LET r == newIters(l, index, o)
                 l2 == Log([l EXCEPT !.iter = r.iter, !.err = r.err],
                           <<"open", index>>)
             IN  IF r.err # NilErr \/ r.iter = NilIter
                 THEN [l |-> l2, ret |-> FALSE]
                 ELSE [l |-> IF l2.hasSlot
                             THEN [l2 EXCEPT !.slot = r.rangeDelIter]
                             ELSE l2,
                       ret |-> TRUE]

RECURSIVE loadFileLoop(_, _, _, _)
loadFileLoop(l0, index, dir, o) ==
    LET l == [l0 EXCEPT !.index = index]
    IN  IF index < 0 \/ index >= Len(l.files) THEN [l |-> l, ret |-> FALSE]
        ELSE LET f == l.files[index + 1]
             IN  IF l.lower # NoBound /\ f.largest.ukey < l.lower
                 THEN IF dir < 0 THEN [l |-> l, ret |-> FALSE]
                      ELSE loadFileLoop(l, index + dir, dir, o)
                 ELSE IF l.upper # NoBound /\ f.smallest.ukey >= l.upper
                 THEN IF dir > 0 THEN [l |-> l, ret |-> FALSE]
                      ELSE loadFileLoop(l, index + dir, dir, o)
                 ELSE LET r == newIters(l, index, o)
                          l2 == Log([l EXCEPT !.iter = r.iter, !.err = r.err],
                                    <<"open", index>>)
                      IN  IF r.err # NilErr \/ r.iter = NilIter
                          THEN [l |-> l2, ret |-> FALSE]
                          ELSE [l |-> IF l2.hasSlot
                                      THEN [l2 EXCEPT !.slot = r.rangeDelIter]
                                      ELSE l2,
                                ret |-> TRUE]

\* loadFile that keeps the boundary it was called with.
loadFile_KeepBoundary(l, index, dir, o) ==
    IF l.index = index THEN [l |-> l, ret |-> l.iter # NilIter]
    ELSE LET c == IterClose(l, o)
         IN  IF l.iter # NilIter /\ c.err # NilErr
             THEN [l |-> [c.l EXCEPT !.err = c.err], ret |-> FALSE]
             ELSE LET l2 == IF l.iter # NilIter
                            THEN [c.l EXCEPT !.err = c.err, !.iter = NilIter]
                            ELSE l
                      l3 == IF l2.hasSlot THEN [l2 EXCEPT !.slot = NilSlot] ELSE l2
                  IN  loadFileLoop(l3, index, dir, o)

loadFile(l0, index, dir, o) ==
    LET l == [l0 EXCEPT !.boundary = InvalidInternalKey]
    IN  IF l.index = index THEN [l |-> l, ret |-> l.iter # NilIter]
        ELSE LET c == IterClose(l, o)
             IN  IF l.iter # NilIter /\ c.err # NilErr
                 THEN [l |-> [c.l EXCEPT !.err = c.err], ret |-> FALSE]
                 ELSE LET l2 == IF l.iter # NilIter
                                THEN [c.l EXCEPT !.err = c.err, !.iter = NilIter]
                                ELSE l
                          l3 == IF l2.hasSlot THEN [l2 EXCEPT !.slot = NilSlot]
                                ELSE l2
                      IN  loadFileLoop(l3, index, dir, o)

\* skipEmptyFile that never returns a file's boundary key.
RECURSIVE skipEmptyFile_NoBoundary(_, _, _)
skipEmptyFile_NoBoundary(l, dir, o) ==
    LET c == IterClose(l, o)
    IN  IF c.err # NilErr THEN [l |-> [c.l EXCEPT !.err = c.err], ret |-> FALSE]
        ELSE LET l2 == [c.l EXCEPT !.err = c.err, !.iter = NilIter]
                 l3 == IF l2.hasSlot THEN [l2 EXCEPT !.slot = NilSlot] ELSE l2
                 r == loadFile(l3, l3.index + dir, dir, o)
             IN  IF ~r.ret THEN r
                 ELSE LET v == IterMove(r.l, IF dir > 0 THEN "First" ELSE "Last",
                                        0, o)
                      IN  IF v.ret THEN v
                          ELSE skipEmptyFile_NoBoundary(v.l, dir, o)

\* skipEmptyFileForward (dir = 1, largest, First) and skipEmptyFileBackward
\* (dir = -1, smallest, Last).
\* skipEmptyFile that stops at a range tombstone's boundary key whether or
\* not a range-del slot is installed.
RECURSIVE skipEmptyFile_AnySlot(_, _, _)
skipEmptyFile_AnySlot(l, dir, o) ==
    LET c == IterClose(l, o)
    IN  IF c.err # NilErr THEN [l |-> [c.l EXCEPT !.err = c.err], ret |-> FALSE]
        ELSE LET l2 == [c.l EXCEPT !.err = c.err, !.iter = NilIter]
                 f == l2.files[l2.index + 1]
                 b == IF dir > 0 THEN f.largest ELSE f.smallest
             IN  IF b.kind = InternalKeyKindRangeDelete
                 THEN [l |-> [l2 EXCEPT !.boundary = b], ret |-> TRUE]
                 ELSE LET r == loadFile(l2, l2.index + dir, dir, o)
                      IN  IF ~r.ret THEN r
                          ELSE LET v == IterMove(r.l, IF dir > 0 THEN "First"
                                                      ELSE "Last", 0, o)
                               IN  IF v.ret THEN v
                                   ELSE skipEmptyFile_AnySlot(v.l, dir, o)

\* skipEmptyFile that gives up at the first file that shows nothing.
skipEmptyFile_GiveUp(l, dir, o) == [l |-> l, ret |-> FALSE]

RECURSIVE skipEmptyFile(_, _, _)
skipEmptyFile(l, dir, o) ==
    LET c == IterClose(l, o)
    IN  IF c.err # NilErr THEN [l |-> [c.l EXCEPT !.err = c.err], ret |-> FALSE]
        ELSE LET l2 == [c.l EXCEPT !.err = c.err, !.iter = NilIter]
                 f == l2.files[l2.index + 1]
                 b == IF dir > 0 THEN f.largest ELSE f.smallest
             IN  IF l2.hasSlot /\ b.kind = InternalKeyKindRangeDelete
                 THEN [l |-> [l2 EXCEPT !.boundary = b], ret |-> TRUE]
                 ELSE LET l3 == IF l2.hasSlot THEN [l2 EXCEPT !.slot = NilSlot]
                                ELSE l2
                          r == loadFile(l3, l3.index + dir, dir, o)
                      IN  IF ~r.ret THEN r
                          ELSE LET v == IterMove(r.l, IF dir > 0 THEN "First"
                                                      ELSE "Last", 0, o)
                               IN  IF v.ret THEN v ELSE skipEmptyFile(v.l, dir, o)

\* The tail shared by the positioning methods: the file iterator's move and,
\* when it finds nothing, the skip in the direction of travel.
MoveOrSkip(r, op, key, dir, o) ==
    IF ~r.ret THEN r
    ELSE LET v == IterMove(r.l, op, key, o)
         IN  IF v.ret THEN v ELSE skipEmptyFile(v.l, dir, o)

SeekGE(l, key, o) ==
    MoveOrSkip(loadFile(l, findFileGE(l, key), 1, o), "SeekGE", key, 1, o)

SeekLT(l, key, o) ==
    MoveOrSkip(loadFile(l, findFileLT(l, key), 0 - 1, o), "SeekLT", key, 0 - 1, o)

First(l, o) == MoveOrSkip(loadFile(l, 0, 1, o), "First", 0, 1, o)

Last(l, o) ==
    MoveOrSkip(loadFile(l, Len(l.files) - 1, 0 - 1, o), "Last", 0, 0 - 1, o)

\* Next and Prev without the test of l.err.
Step_NoErrCheck(l, dir, o) ==
    LET first == IF dir > 0 THEN "First" ELSE "Last"
        off == IF dir > 0 THEN 0 - 1 ELSE Len(l.files)
        start == IF dir > 0 THEN 0 ELSE Len(l.files) - 1
    IN  IF l.iter = NilIter
        THEN IF l.boundary # InvalidInternalKey
             THEN MoveOrSkip(loadFile(l, l.index + dir, dir, o), first, 0, dir, o)
             ELSE IF l.index = off
             THEN MoveOrSkip(loadFile(l, start, dir, o), first, 0, dir, o)
             ELSE [l |-> l, ret |-> FALSE]
        ELSE MoveOrSkip([l |-> l, ret |-> TRUE],
                        IF dir > 0 THEN "Next" ELSE "Prev", 0, dir, o)

\* Next (dir = 1) and Prev (dir = -1).
Step(l, dir, o) ==
    LET first == IF dir > 0 THEN "First" ELSE "Last"
        off == IF dir > 0 THEN 0 - 1 ELSE Len(l.files)
        start == IF dir > 0 THEN 0 ELSE Len(l.files) - 1
    IN  IF l.err # NilErr THEN [l |-> l, ret |-> FALSE]
        ELSE IF l.iter = NilIter
        THEN IF l.boundary # InvalidInternalKey
             THEN MoveOrSkip(loadFile(l, l.index + dir, dir, o), first, 0, dir, o)
             ELSE IF l.index = off
             THEN MoveOrSkip(loadFile(l, start, dir, o), first, 0, dir, o)
             ELSE [l |-> l, ret |-> FALSE]
        ELSE MoveOrSkip([l |-> l, ret |-> TRUE],
                        IF dir > 0 THEN "Next" ELSE "Prev", 0, dir, o)

Next(l, o) == Step(l, 1, o)

Prev(l, o) == Step(l, 0 - 1, o)

Key(l) ==
    IF l.iter = NilIter THEN l.boundary
    ELSE IF IterValid(l) THEN l.files[l.iter.file + 1].keys[l.iter.pos]
    ELSE InvalidInternalKey

\* 0 is the nil value.
Value(l) ==
    IF l.iter = NilIter THEN 0
    ELSE IF IterValid(l) THEN l.files[l.iter.file + 1].keys[l.iter.pos].value
    ELSE 0

Valid(l) ==
    IF l.iter = NilIter THEN l.boundary # InvalidInternalKey ELSE IterValid(l)

\* The file iterator in use has no error of its own.
Error(l) == l.err

\* Close that closes the file iterator and keeps holding it.
Close_KeepIter(l, o) ==
    LET c == IterClose(l, o)
        l1 == IF l.iter # NilIter THEN [c.l EXCEPT !.err = c.err] ELSE l
        t == l1.slot
        rdErr == IF o.rdCloseErr THEN [kind |-> "rdclose", file |-> t] ELSE NilErr
        l2 == IF t # NilSlot
              THEN [Log(l1, <<"rdclose", t>>) EXCEPT
                      !.err = IF rdErr # NilErr /\ l1.err = NilErr
                              THEN rdErr ELSE l1.err]
              ELSE l1
        l3 == IF l1.hasSlot THEN [l2 EXCEPT !.slot = NilSlot] ELSE l1
    IN  [l |-> l3, ret |-> l3.err]

Close(l, o) ==
    LET c == IterClose(l, o)
        l1 == IF l.iter # NilIter
              THEN [c.l EXCEPT !.err = c.err, !.iter = NilIter]
              ELSE l
        t == l1.slot
        rdErr == IF o.rdCloseErr THEN [kind |-> "rdclose", file |-> t] ELSE NilErr
        l2 == IF t # NilSlot
              THEN [Log(l1, <<"rdclose", t>>) EXCEPT
                      !.err = IF rdErr # NilErr /\ l1.err = NilErr
                              THEN rdErr ELSE l1.err]
              ELSE l1
        l3 == IF l1.hasSlot THEN [l2 EXCEPT !.slot = NilSlot] ELSE l1
    IN  [l |-> l3, ret |-> l3.err]

(***************************************************************************)
(* Inputs.                                                                 *)
(***************************************************************************)
NumWriters == 2
NumReaders == 2
Writers == 1..NumWriters
Readers == 1..NumReaders
Slacks == 0..MaxSlack

\* Range tombstones are well formed: start < end.
RangeDelArgs ==
    {x \in UserKeys \X (1..(MaxKey + 1)) : x[1] < x[2]}

\* A DELETE carries no value.
PointArgs ==
    {x \in PointKinds \X UserKeys \X Values :
        x[1] = InternalKeyKindDelete => x[3] = 0}

SetKeys ==
    {MakeInternalKey(x[2], s, x[1], x[3]) : x \in PointArgs, s \in SeqNums}
    \cup {MakeInternalKey(x[1], s, InternalKeyKindRangeDelete, x[2]) :
            x \in RangeDelArgs, s \in SeqNums}

BatchEntries ==
    {BatchEntry(x[1], x[2], x[3]) : x \in PointArgs}
    \cup {BatchEntry(InternalKeyKindRangeDelete, x[1], x[2]) : x \in RangeDelArgs}

Batches == UNION {[1..n -> BatchEntries] : n \in 1..MaxBatchLen}

NoCall == [op |-> "none", batch |-> <<>>, seqNum |-> 0,
           skl |-> <<>>, rangeDelSkl |-> <<>>, reads |-> 0]

\* The history kept beside the program: flushed and panics count the unref
\* calls that returned true and that panicked; zeros and below count the
\* decrements that landed on 0 and below 0; hitZero is whether refs has been
\* 0 or less, refAfterZero whether a ref() followed that; snapped is whether
\* a prepare has lowered reserved; creatorHeld, extra, dropped and rogue are
\* the references held and dropped outside the writers and the unref calls
\* made without one; installs lists the lengths of the slices the
\* compare-and-swaps of newRangeDelIter installed, in order.
HistInit ==
    [flushed |-> 0, panics |-> 0, zeros |-> 0, below |-> 0, hitZero |-> FALSE,
     snapped |-> FALSE,
     refAfterZero |-> FALSE, creatorHeld |-> TRUE, extra |-> 0, dropped |-> 0,
     rogue |-> 0,
     installs |-> <<>>, call |-> NoCall, setsOk |-> 0, pointSetsOk |-> 0]

\* The history after a step from mt to mt2 in which an unref call returned
\* res ("none" when the step is not an unref).
HistStep(h, mt, mt2, res) ==
    [h EXCEPT
       !.flushed = IF res = "true" THEN @ + 1 ELSE @,
       !.panics = IF res = "panic" THEN @ + 1 ELSE @,
       !.zeros = IF mt2.refs = mt.refs - 1 /\ mt2.refs = 0 THEN @ + 1 ELSE @,
       !.below = IF mt2.refs = mt.refs - 1 /\ mt2.refs < 0 THEN @ + 1 ELSE @,
       !.hitZero = @ \/ mt2.refs <= 0,
       !.snapped = @ \/ mt2.reserved < mt.reserved,
       !.refAfterZero = @ \/ (h.hitZero /\ mt2.refs = mt.refs + 1),
       !.installs = IF mt2.vals # mt.vals /\ ~IsNil(mt2.vals)
                    THEN Append(@, Len(mt2.vals.v)) ELSE @]

\* No level iterator exists beside the memtable.
NoLevelIter == <<>>

InitProcs ==
    /\ lit = NoLevelIter
    /\ wl = [w \in Writers |-> WriterIdle]
    /\ rl = [r \in Readers |-> ReaderIdle]
    /\ hist = HistInit

(***************************************************************************)
(* The sequential specification: one caller; set and newRangeDelIter run   *)
(* to their return, apply reads its batch entry by entry.                  *)
(***************************************************************************)
InitSeq == m = newMemTable(SeqMemTableSize) /\ InitProcs

\* Every node of the sequential specification takes its full MaxNodeSize.
SeqSet ==
    /\ wl[1].pc = "idle"
    /\ UNCHANGED lit
    /\ m.count < MaxCount
    /\ \E key \in SetKeys :
        LET r == WRun(m, SetCall(key), 0)
        IN  /\ m' = r.m
            /\ wl' = [wl EXCEPT ![1] = r.l]
    /\ UNCHANGED <<rl, hist>>

SeqApplyCall ==
    /\ wl[1].pc = "idle"
    /\ UNCHANGED lit
    /\ m.count < MaxCount
    /\ \E seqNum \in SeqNums :
        wl' = [wl EXCEPT ![1] = ApplyCall(WriterIdle, <<>>, seqNum)]
    /\ UNCHANGED <<m, rl, hist>>

\* The answers of iter.next() at position i of a batch of at most MaxBatchLen
\* entries.
IterAnswers(i) ==
    {[ok |-> FALSE, ent |-> BatchEntry(0, 0, 0)]}
    \cup (IF i > MaxBatchLen THEN {}
          ELSE {[ok |-> TRUE, ent |-> e] : e \in BatchEntries})

SeqApplyStep ==
    /\ InApply(wl[1])
    /\ UNCHANGED lit
    /\ \E next \in IF wl[1].pc = "applyNext" THEN IterAnswers(wl[1].i)
                   ELSE {BatchIterNext(<<>>, 1)} :
        LET r == IF wl[1].pc = "applyNext"
                 THEN ApplyNext(m, wl[1], next, wl[1].i - 1, 0)
                 ELSE WStep(m, wl[1], 0)
        IN  /\ m' = r.m
            /\ wl' = [wl EXCEPT ![1] = r.l]
    /\ UNCHANGED <<rl, hist>>

SeqNewRangeDelIter ==
    /\ wl[1].pc = "idle"
    /\ UNCHANGED lit
    /\ LET r == RRun(m, RangeDelIterCall(ReaderIdle), 1)
       IN  /\ m' = r.m
           /\ rl' = [rl EXCEPT ![1] = [ReaderIdle EXCEPT !.ret = r.l.ret]]
    /\ UNCHANGED <<wl, hist>>

NextSeq == SeqSet \/ SeqApplyCall \/ SeqApplyStep \/ SeqNewRangeDelIter

SpecSeq == InitSeq /\ [][NextSeq]_vars

(***************************************************************************)
(* The specification of set alone: every call of the history is a set (or  *)
(* a newRangeDelIter); hist counts the sets that returned nil and keeps    *)
(* the last call's key and the skiplists as they were before it.           *)
(***************************************************************************)
CountedSet ==
    /\ wl[1].pc = "idle"
    /\ UNCHANGED lit
    /\ \E key \in SetKeys :
        LET r == WRun(m, SetCall(key), 0)
        IN  /\ m' = r.m
            /\ wl' = [wl EXCEPT ![1] = r.l]
            /\ hist' = [hist EXCEPT
                          !.call = [op |-> "set", batch |-> <<key>>,
                                    seqNum |-> key.seq, skl |-> m.skl,
                                    rangeDelSkl |-> m.rangeDelSkl,
                                    reads |-> 0],
                          !.setsOk = IF r.l.err = "nil" THEN @ + 1 ELSE @,
                          !.pointSetsOk =
                             IF r.l.err = "nil"
                                /\ key.kind # InternalKeyKindRangeDelete
                             THEN @ + 1 ELSE @]
    /\ UNCHANGED rl

NextSet == CountedSet \/ SeqNewRangeDelIter

SpecSet == InitSeq /\ [][NextSet]_vars

(***************************************************************************)
(* The specification of one apply: a fresh memtable or one holding one     *)
(* entry, one apply of any batch, and range-del scans before and after it; *)
(* hist.call keeps the arguments and the skiplists as they were.           *)
(***************************************************************************)
InitApply ==
    /\ m \in {newMemTable(ApplyMemTableSize)}
             \cup {WRun(newMemTable(ApplyMemTableSize), SetCall(key), 0).m :
                     key \in SetKeys}
    /\ InitProcs

AppApply ==
    /\ hist.call.op = "none"
    /\ UNCHANGED lit
    /\ \E b \in Batches, seqNum \in SeqNums, slack \in Slacks :
        LET r == WRun(m, ApplyCall(WriterIdle, b, seqNum), slack)
        IN  /\ m' = r.m
            /\ wl' = [wl EXCEPT ![1] = r.l]
            /\ hist' = [hist EXCEPT !.call =
                          [op |-> "apply", batch |-> b, seqNum |-> seqNum,
                           skl |-> m.skl, rangeDelSkl |-> m.rangeDelSkl,
                           reads |-> rl[1].n]]
    /\ UNCHANGED rl

AppNewRangeDelIter ==
    /\ rl[1].n <= hist.call.reads
    /\ UNCHANGED lit
    /\ LET r == RRun(m, RangeDelIterCall(rl[1]), 1)
       IN  /\ m' = r.m
           /\ rl' = [rl EXCEPT ![1] = r.l]
    /\ UNCHANGED <<wl, hist>>

NextApply == AppApply \/ AppNewRangeDelIter

SpecApply == InitApply /\ [][NextApply]_vars

(***************************************************************************)
(* Fragmentation: a fresh memtable, one apply of a batch of up to          *)
(* MaxFragLen range tombstones over the keys 0..MaxFragKey, then the       *)
(* range-del scan.                                                         *)
(***************************************************************************)
FragArgs == {x \in (0..MaxFragKey) \X (0..MaxFragKey) : x[1] < x[2]}

FragBatches ==
    UNION {[1..n -> {BatchEntry(InternalKeyKindRangeDelete, x[1], x[2]) :
                       x \in FragArgs}] : n \in 1..MaxFragLen}

InitFrag ==
    /\ m = newMemTable(FragMemTableSize)
    /\ InitProcs

FragApply ==
    /\ hist.call.op = "none"
    /\ UNCHANGED lit
    /\ \E b \in FragBatches, seqNum \in SeqNums :
        LET r == WRun(m, ApplyCall(WriterIdle, b, seqNum), 0)
        IN  /\ m' = r.m
            /\ wl' = [wl EXCEPT ![1] = r.l]
            /\ hist' = [hist EXCEPT !.call =
                          [op |-> "apply", batch |-> b, seqNum |-> seqNum,
                           skl |-> m.skl, rangeDelSkl |-> m.rangeDelSkl,
                           reads |-> rl[1].n]]
    /\ UNCHANGED rl

NextFrag == FragApply \/ AppNewRangeDelIter

SpecFrag == InitFrag /\ [][NextFrag]_vars

(***************************************************************************)
(* The level iterator alone: a level of up to MaxFiles sorted,             *)
(* non-overlapping files, optional bounds, the range-del slot installed or *)
(* not, and any sequence of SeekGE, SeekLT, First, Last, Next, Prev and    *)
(* Close.  op, arg, ret and closeRet record the last call, closes the      *)
(* Close calls in a row, faults the calls during which a collaborator was  *)
(* set to fail.                                                            *)
(***************************************************************************)
LevelKeys == 0..MaxLevelKey

\* The keys sought: the user keys of the level and one beyond them.
SeekKeys == 0..(MaxLevelKey + 1)

\* A file holds one SET per user key of ks; its smallest key is its first
\* entry or the start lo of a range tombstone, its largest key its last entry
\* or the end hi of a range tombstone, which carries the sentinel trailer.
LevelFile(ks, lo, hi) ==
    LET keys == SortEntries({MakeInternalKey(u, 1, InternalKeyKindSet, 1) : u \in ks})
    IN  [keys |-> keys,
         smallest |-> IF lo = NoBound THEN keys[1]
                      ELSE MakeInternalKey(lo, 2, InternalKeyKindRangeDelete, 0),
         largest |-> IF hi = NoBound THEN keys[Len(keys)]
                     ELSE MakeInternalKey(hi, InternalKeySeqNumMax,
                                          InternalKeyKindRangeDelete, 0)]

LevelFiles ==
    {LevelFile(x[1], x[2], x[3]) : x \in
        {y \in (SUBSET LevelKeys) \X ({NoBound} \cup LevelKeys)
                 \X ({NoBound} \cup (1..(MaxLevelKey + 1))) :
            /\ y[1] = {} => y[2] # NoBound /\ y[3] # NoBound
            /\ y[2] # NoBound => \A u \in y[1] : y[2] <= u
            /\ y[3] # NoBound => \A u \in y[1] : u < y[3]
            /\ (y[2] # NoBound /\ y[3] # NoBound) => y[2] < y[3]}}

\* The layout invariant: sorted by smallest, no two files overlap.
Levels ==
    UNION {{fs \in [1..n -> LevelFiles] :
              \A i \in 1..(n - 1) : InternalLess(fs[i].largest, fs[i + 1].smallest)} :
           n \in 1..MaxFiles}

LevelBounds ==
    {b \in ({NoBound} \cup LevelKeys) \X ({NoBound} \cup LevelKeys) :
        (b[1] # NoBound /\ b[2] # NoBound) => b[1] < b[2]}

\* newLevelIter and, when hasSlot, initRangeDel with an empty slot.
newLevelIter(files, lower, upper, hasSlot) ==
    [files |-> files, lower |-> lower, upper |-> upper, hasSlot |-> hasSlot,
     index |-> 0 - 1, boundary |-> InvalidInternalKey, iter |-> NilIter,
     slot |-> NilSlot, err |-> NilErr,
     log |-> <<>>, op |-> "init", arg |-> 0, ret |-> FALSE, closeRet |-> NilErr,
     faults |-> 0, closes |-> 0]

Oracles(l) ==
    IF l.faults < MaxFaults
    THEN [open : {"ok", "err", "nil"}, closeErr : BOOLEAN, rdCloseErr : {FALSE},
          zombie : IF l.iter.closed THEN BOOLEAN ELSE {FALSE}]
    ELSE [open : {"ok"}, closeErr : {FALSE}, rdCloseErr : {FALSE},
          zombie : IF l.iter.closed THEN BOOLEAN ELSE {FALSE}]

\* Close opens no file and moves no file iterator.
CloseOracles(l) ==
    IF l.faults < MaxFaults
    THEN [open : {"ok"}, closeErr : BOOLEAN, rdCloseErr : BOOLEAN, zombie : {FALSE}]
    ELSE {OkOracle}

\* The iterator after a call that returned r, with the record of the call.
Called(r, op, arg, o) ==
    [r.l EXCEPT !.op = op, !.arg = arg,
                !.ret = IF op = "Close" THEN FALSE ELSE r.ret,
                !.closeRet = IF op = "Close" THEN r.ret ELSE NilErr,
                !.faults = IF o.open # "ok" \/ o.closeErr \/ o.rdCloseErr
                           THEN @ + 1 ELSE @,
                !.closes = IF op # "Close" THEN 0 ELSE IF @ < 2 THEN @ + 1 ELSE 2]

Calling(l) == [l EXCEPT !.log = <<>>]

InitLevel ==
    /\ m = <<>>
    /\ wl = <<>>
    /\ rl = <<>>
    /\ hist = <<>>
    /\ lit \in {newLevelIter(fs, b[1], b[2], s) :
                  fs \in Levels, b \in LevelBounds, s \in BOOLEAN}

LevelSeekGE ==
    /\ \E key \in SeekKeys, o \in Oracles(lit) :
          lit' = Called(SeekGE(Calling(lit), key, o), "SeekGE", key, o)
    /\ UNCHANGED <<m, wl, rl, hist>>

LevelSeekLT ==
    /\ \E key \in SeekKeys, o \in Oracles(lit) :
          lit' = Called(SeekLT(Calling(lit), key, o), "SeekLT", key, o)
    /\ UNCHANGED <<m, wl, rl, hist>>

LevelFirst ==
    /\ \E o \in Oracles(lit) : lit' = Called(First(Calling(lit), o), "First", 0, o)
    /\ UNCHANGED <<m, wl, rl, hist>>

LevelLast ==
    /\ \E o \in Oracles(lit) : lit' = Called(Last(Calling(lit), o), "Last", 0, o)
    /\ UNCHANGED <<m, wl, rl, hist>>

LevelNext ==
    /\ \E o \in Oracles(lit) : lit' = Called(Next(Calling(lit), o), "Next", 0, o)
    /\ UNCHANGED <<m, wl, rl, hist>>

LevelPrev ==
    /\ \E o \in Oracles(lit) : lit' = Called(Prev(Calling(lit), o), "Prev", 0, o)
    /\ UNCHANGED <<m, wl, rl, hist>>

LevelClose ==
    /\ \E o \in CloseOracles(lit) : lit' = Called(Close(Calling(lit), o), "Close", 0, o)
    /\ UNCHANGED <<m, wl, rl, hist>>

NextLevel ==
    \/ LevelSeekGE
    \/ LevelSeekLT
    \/ LevelFirst
    \/ LevelLast
    \/ LevelNext
    \/ LevelPrev
    \/ LevelClose

SpecLevel == InitLevel /\ [][NextLevel]_vars

(***************************************************************************)
(* A full scan of a level by one caller: First and then Next while it      *)
(* returns true, or Last and then Prev while it returns true, with no      *)
(* failing collaborator.  hist is the sequence of the keys Key() returned  *)
(* after the calls that returned true.                                     *)
(***************************************************************************)
Surfaced(l) == IF l.ret THEN <<Key(l)>> ELSE <<>>

ScanFirst ==
    /\ lit.op = "init"
    /\ lit' = Called(First(Calling(lit), OkOracle), "First", 0, OkOracle)
    /\ hist' = hist \o Surfaced(lit')
    /\ UNCHANGED <<m, wl, rl>>

ScanNext ==
    /\ lit.op \in {"First", "Next"}
    /\ lit.ret
    /\ lit' = Called(Next(Calling(lit), OkOracle), "Next", 0, OkOracle)
    /\ hist' = hist \o Surfaced(lit')
    /\ UNCHANGED <<m, wl, rl>>

ScanLast ==
    /\ lit.op = "init"
    /\ lit' = Called(Last(Calling(lit), OkOracle), "Last", 0, OkOracle)
    /\ hist' = hist \o Surfaced(lit')
    /\ UNCHANGED <<m, wl, rl>>

ScanPrev ==
    /\ lit.op \in {"Last", "Prev"}
    /\ lit.ret
    /\ lit' = Called(Prev(Calling(lit), OkOracle), "Prev", 0, OkOracle)
    /\ hist' = hist \o Surfaced(lit')
    /\ UNCHANGED <<m, wl, rl>>

NextScan == ScanFirst \/ ScanNext \/ ScanLast \/ ScanPrev

SpecScan == InitLevel /\ [][NextScan]_vars

(***************************************************************************)
(* The prepare/apply/unref protocol: the writers prepare one at a time     *)
(* (prepare is not thread-safe), apply and unref concurrently, one shared  *)
(* access per step; the creator drops its reference once; another holder   *)
(* takes and drops references; a rogue caller drops one it never took.     *)
(* The program ends with the first panic.                                  *)
(***************************************************************************)
\* A one-entry batch and a two-entry batch with a range tombstone.
ProtoBatches ==
    {<<BatchEntry(InternalKeyKindSet, 1, 1)>>,
     <<BatchEntry(InternalKeyKindSet, 0, 0),
       BatchEntry(InternalKeyKindRangeDelete, 0, 1)>>}

\* The commit pipeline hands every batch sequence numbers of its own.
ProtoSeqNum(w, calls) == ((calls - 1) * NumWriters + (w - 1)) * MaxBatchLen

Running == hist.panics = 0

InitProto == m = newMemTable(ProtoMemTableSize) /\ InitProcs

ProtoPrepare(w) ==
    /\ Running
    /\ UNCHANGED lit
    /\ wl[w].pc = "idle"
    /\ wl[w].calls < MaxCalls
    /\ \A v \in Writers : ~InPrepare(wl[v])
    /\ \E b \in ProtoBatches :
        wl' = [wl EXCEPT ![w] = PrepareCall(m, wl[w], b)]
    /\ UNCHANGED <<m, rl, hist>>

ProtoApply(w) ==
    /\ Running
    /\ UNCHANGED lit
    /\ wl[w].pc = "prepared"
    /\ wl' = [wl EXCEPT ![w] =
                ApplyCall(wl[w], wl[w].batch, ProtoSeqNum(w, wl[w].calls))]
    /\ UNCHANGED <<m, rl, hist>>

\* A step of the prepare or apply call writer w is in.
ProtoStep(w) ==
    /\ Running
    /\ UNCHANGED lit
    /\ InPrepare(wl[w]) \/ InApply(wl[w])
    /\ \E slack \in IF wl[w].pc = "applyNext" THEN Slacks ELSE {0} :
        LET r == WStep(m, wl[w], slack)
        IN  /\ m' = r.m
            /\ wl' = [wl EXCEPT ![w] = r.l]
            /\ hist' = HistStep(hist, m, r.m, "none")
    /\ UNCHANGED rl

\* Writer w drops the reference its prepare took.
ProtoUnref(w) ==
    /\ Running
    /\ UNCHANGED lit
    /\ wl[w].pc = "unref"
    /\ LET r == WriterUnref(m, wl[w])
       IN  /\ m' = r.m
           /\ wl' = [wl EXCEPT ![w] = r.l]
           /\ hist' = HistStep(hist, m, r.m, UnrefResult(unref(m).refs))
    /\ UNCHANGED rl

\* The creator of the memtable drops the reference newMemTable gave it.
CreatorUnref ==
    /\ Running
    /\ UNCHANGED lit
    /\ hist.creatorHeld
    /\ m' = unref(m)
    /\ hist' = [HistStep(hist, m, unref(m), UnrefResult(unref(m).refs))
                  EXCEPT !.creatorHeld = FALSE]
    /\ UNCHANGED <<wl, rl>>

NextProto ==
    \/ \E w \in Writers :
          ProtoPrepare(w) \/ ProtoApply(w) \/ ProtoStep(w) \/ ProtoUnref(w)
    \/ CreatorUnref

SpecProto == InitProto /\ [][NextProto]_vars

(***************************************************************************)
(* Reference counting: the writers of the protocol, their applies run to   *)
(* the return, beside a holder that takes and drops a reference of its own *)
(* and a rogue caller that drops one it never took.                        *)
(***************************************************************************)
RefsPrepare(w) ==
    /\ Running
    /\ UNCHANGED lit
    /\ wl[w].pc = "idle"
    /\ wl[w].calls < MaxCalls
    /\ \A v \in Writers : ~InPrepare(wl[v])
    /\ wl' = [wl EXCEPT ![w] =
                PrepareCall(m, wl[w], <<BatchEntry(InternalKeyKindSet, 1, 1)>>)]
    /\ UNCHANGED <<m, rl, hist>>

RefsPrepStep(w) ==
    /\ Running
    /\ UNCHANGED lit
    /\ InPrepare(wl[w])
    /\ LET r == WStep(m, wl[w], 0)
       IN  /\ m' = r.m
           /\ wl' = [wl EXCEPT ![w] = r.l]
           /\ hist' = HistStep(hist, m, r.m, "none")
    /\ UNCHANGED rl

RefsApply(w) ==
    /\ Running
    /\ UNCHANGED lit
    /\ wl[w].pc = "prepared"
    /\ LET r == WRun(m, ApplyCall(wl[w], wl[w].batch,
                                  ProtoSeqNum(w, wl[w].calls)), 0)
       IN  /\ m' = r.m
           /\ wl' = [wl EXCEPT ![w] = r.l]
    /\ UNCHANGED <<rl, hist>>

ExtraRef ==
    /\ Running
    /\ UNCHANGED lit
    /\ hist.extra < MaxExtra
    /\ hist.dropped < MaxDrops
    /\ m' = ref(m)
    /\ hist' = [HistStep(hist, m, ref(m), "none") EXCEPT !.extra = @ + 1]
    /\ UNCHANGED <<wl, rl>>

\* The holder drops a reference it took.
ExtraUnref ==
    /\ Running
    /\ UNCHANGED lit
    /\ hist.extra > 0
    /\ m' = unref(m)
    /\ hist' = [HistStep(hist, m, unref(m), UnrefResult(unref(m).refs))
                  EXCEPT !.extra = @ - 1, !.dropped = @ + 1]
    /\ UNCHANGED <<wl, rl>>

RogueUnref ==
    /\ Running
    /\ UNCHANGED lit
    /\ hist.rogue < MaxRogue
    /\ m' = unref(m)
    /\ hist' = [HistStep(hist, m, unref(m), UnrefResult(unref(m).refs))
                  EXCEPT !.rogue = @ + 1]
    /\ UNCHANGED <<wl, rl>>

NextRefs ==
    \/ \E w \in Writers :
          RefsPrepare(w) \/ RefsPrepStep(w) \/ RefsApply(w) \/ ProtoUnref(w)
    \/ CreatorUnref
    \/ ExtraRef
    \/ ExtraUnref
    \/ RogueUnref

SpecRefs == InitProto /\ [][NextRefs]_vars

(***************************************************************************)
(* The tombstone cache: one writer adds range tombstones with set and with *)
(* apply of one-entry batches while the readers call newRangeDelIter, one  *)
(* shared access per step.  The program ends with the first panic.         *)
(***************************************************************************)
NoPanic == \A r \in Readers : rl[r].pc # "panic"

\* Three tombstones: two that abut and one, newer, that covers both.
RangeDelKeys ==
    {MakeInternalKey(0, 0, InternalKeyKindRangeDelete, 1),
     MakeInternalKey(1, 0, InternalKeyKindRangeDelete, 2),
     MakeInternalKey(0, 1, InternalKeyKindRangeDelete, 2)}

InitCache == m = newMemTable(CacheMemTableSize) /\ InitProcs

CacheSet ==
    /\ NoPanic
    /\ UNCHANGED lit
    /\ wl[1].pc = "idle"
    /\ m.count < MaxCount
    /\ \E key \in RangeDelKeys : wl' = [wl EXCEPT ![1] = SetCall(key)]
    /\ UNCHANGED <<m, rl, hist>>

CacheApply ==
    /\ NoPanic
    /\ UNCHANGED lit
    /\ wl[1].pc = "idle"
    /\ m.count < MaxCount
    /\ \E key \in RangeDelKeys :
        wl' = [wl EXCEPT ![1] =
                 ApplyCall(WriterIdle,
                           <<BatchEntry(key.kind, key.ukey, key.value)>>,
                           key.seq)]
    /\ UNCHANGED <<m, rl, hist>>

CacheWriterStep ==
    /\ NoPanic
    /\ UNCHANGED lit
    /\ InSet(wl[1]) \/ InApply(wl[1])
    /\ LET r == WStep(m, wl[1], 0)
       IN  /\ m' = r.m
           /\ wl' = [wl EXCEPT ![1] = r.l]
    /\ UNCHANGED <<rl, hist>>

CacheRead(r) ==
    /\ NoPanic
    /\ UNCHANGED lit
    /\ rl[r].pc = "idle"
    /\ rl[r].n < MaxReads
    /\ rl' = [rl EXCEPT ![r] = RangeDelIterCall(rl[r])]
    /\ UNCHANGED <<m, wl, hist>>

CacheReaderStep(r) ==
    /\ NoPanic
    /\ UNCHANGED lit
    /\ InRead(rl[r])
    /\ LET x == RStep(m, rl[r], r)
       IN  /\ m' = x.m
           /\ rl' = [rl EXCEPT ![r] = x.l]
           /\ hist' = HistStep(hist, m, x.m, "none")
    /\ UNCHANGED wl

NextCache ==
    \/ CacheSet
    \/ CacheApply
    \/ CacheWriterStep
    \/ \E r \in Readers : CacheRead(r) \/ CacheReaderStep(r)

SpecCache == InitCache /\ [][NextCache]_vars

(***************************************************************************)
(* Claims.                                                                 *)
(***************************************************************************)
Range(f) == {f[i] : i \in 1..Len(f)}

PointEntriesOf(k) == {e \in Range(m.skl) : e.ukey = k}

\* The entries of k with the greatest sequence number.
GreatestSeq(k) ==
    {e \in PointEntriesOf(k) : \A x \in PointEntriesOf(k) : x.seq <= e.seq}

\* The entry of k with the greatest trailer (sequence number, then kind).
GreatestTrailer(k) ==
    {e \in PointEntriesOf(k) :
        \A x \in PointEntriesOf(k) : EntryTrailer(x) <= EntryTrailer(e)}

NotFound == [err |-> "ErrNotFound", value |-> 0]

\* C1 as stated: get(k) is NotFound when the point skiplist holds no entry
\* of k or an entry of k with the greatest sequence number is a DELETE, and
\* is otherwise the value of the greatest-sequence entry.
C1_AsStated ==
    \A k \in UserKeys :
        IF PointEntriesOf(k) = {}
           \/ \E e \in GreatestSeq(k) : e.kind = InternalKeyKindDelete
        THEN get(m, k) = NotFound
        ELSE \E e \in GreatestSeq(k) : get(m, k) = [err |-> "nil", value |-> e.value]

\* C1: get(k) is NotFound when the point skiplist holds no entry of k or the
\* entry of k with the greatest trailer (greatest sequence number, the
\* greater kind among equal sequence numbers) is a DELETE; otherwise it is
\* the value of that entry, a SET or MERGE.  Nothing but the point entries
\* of k decides the result.
C1_Get ==
    \A k \in UserKeys :
        /\ Cardinality(GreatestTrailer(k)) <= 1
        /\ IF PointEntriesOf(k) = {}
              \/ \E e \in GreatestTrailer(k) : e.kind = InternalKeyKindDelete
           THEN get(m, k) = NotFound
           ELSE \E e \in GreatestTrailer(k) :
                   /\ e.kind \in {InternalKeyKindSet, InternalKeyKindMerge}
                   /\ get(m, k) = [err |-> "nil", value |-> e.value]

\* A DELETE and a SET of one key share the greatest sequence number, another
\* key and a range tombstone are present, and get returns the SET's value.
C1_Witness ==
    \E k \in UserKeys : \E e \in PointEntriesOf(k), d \in PointEntriesOf(k) :
        /\ e.seq = d.seq
        /\ d.kind = InternalKeyKindDelete
        /\ e.kind = InternalKeyKindSet
        /\ e.value # 0
        /\ get(m, k) = [err |-> "nil", value |-> e.value]

\* A DELETE at a greater sequence number shadows a SET while another key
\* holds a live value.
C1_WitnessShadow ==
    \E k \in UserKeys : \E e \in PointEntriesOf(k), d \in PointEntriesOf(k) :
        /\ e.seq < d.seq
        /\ d.kind = InternalKeyKindDelete
        /\ e.kind = InternalKeyKindSet
        /\ get(m, k) = NotFound

\* C10: empty() is true exactly when no set or apply has inserted an entry
\* into either skiplist, so it is true on the fresh memtable and false after
\* the first successful insert, and once false it stays false.
C10_Empty ==
    /\ [](empty(m) <=> (m.skl = <<>> /\ m.rangeDelSkl = <<>>))
    /\ [][~empty(m) => ~empty(m')]_vars

\* The only entry is an empty key with an empty value, and the memtable is
\* not empty.
C10_Witness ==
    /\ m.rangeDelSkl = <<>>
    /\ Len(m.skl) = 1
    /\ m.skl[1].ukey = 0
    /\ m.skl[1].value = 0
    /\ ~empty(m)

StrictlySorted(list) ==
    \A i \in 1..(Len(list) - 1) : InternalLess(list[i], list[i + 1])

LastSetKey == hist.call.batch[1]

LastSetPresent ==
    \E e \in Range(IF LastSetKey.kind = InternalKeyKindRangeDelete
                   THEN hist.call.rangeDelSkl ELSE hist.call.skl) :
        SameInternalKey(e, LastSetKey)

C9_WitnessRangeDel ==
    /\ hist.call.op = "set"
    /\ LastSetKey.kind = InternalKeyKindRangeDelete
    /\ wl[1].err = "nil"
    /\ count(m) = 1
    /\ hist.setsOk = 2

ApplyEntries(b, seqNum) ==
    {MakeInternalKey(b[i].ukey, seqNum + i - 1, b[i].kind, b[i].value) :
        i \in 1..Len(b)}

AppliedOk == hist.call.op = "apply" /\ wl[1].err = "nil"

ScannedAfter == rl[1].n > hist.call.reads

\* What apply promises of the two skiplists when it returns nil.
ApplyInserted ==
    LET new == ApplyEntries(hist.call.batch, hist.call.seqNum)
    IN  /\ Range(m.skl) = Range(hist.call.skl)
              \cup {e \in new : e.kind # InternalKeyKindRangeDelete}
        /\ Range(m.rangeDelSkl) = Range(hist.call.rangeDelSkl)
              \cup {e \in new : e.kind = InternalKeyKindRangeDelete}
        /\ Len(m.skl) + Len(m.rangeDelSkl)
              = Len(hist.call.skl) + Len(hist.call.rangeDelSkl)
                + BatchCount(hist.call.batch)
        /\ StrictlySorted(m.skl)
        /\ StrictlySorted(m.rangeDelSkl)

\* C8 as stated: after a successful apply the range-del scan shows exactly
\* the entries of the range-del skiplist.
C8_AsStated ==
    (AppliedOk /\ ScannedAfter /\ m.count > 0) =>
        rl[1].ret = "iter" /\ rl[1].tombstones = m.rangeDelSkl

\* C8: apply never panics on its batch count; when it returns nil the i-th
\* entry of the batch (0-based) is stored under sequence number start_seq + i,
\* RANGEDEL entries in the range-del skiplist only and every other kind in
\* the point skiplist only, batch.count() entries in all; the point scan
\* shows the point skiplist, and the range-del scan shows the range-del
\* skiplist in fragmented form (no iterator when no tombstone was ever
\* added).
C8_Apply ==
    /\ wl[1].pc # "panic"
    /\ AppliedOk =>
         /\ ApplyInserted
         /\ ScannedAfter =>
              IF m.count = 0 THEN rl[1].ret = "nil"
              ELSE /\ rl[1].ret = "iter"
                   /\ rl[1].tombstones = Fragment(m.rangeDelSkl)

\* A batch of a point entry and a RANGEDEL was applied at a sequence number
\* above 0 to a memtable that held an entry, and scanned afterwards.
C8_Witness ==
    /\ AppliedOk
    /\ ScannedAfter
    /\ hist.call.seqNum > 0
    /\ Len(hist.call.skl) + Len(hist.call.rangeDelSkl) = 1
    /\ Len(hist.call.batch) = 2
    /\ hist.call.batch[1].kind # InternalKeyKindRangeDelete
    /\ hist.call.batch[2].kind = InternalKeyKindRangeDelete
    /\ rl[1].ret = "iter"

\* Two overlapping tombstones were applied and the scan shows three fragments.
C8_WitnessFragments ==
    /\ AppliedOk
    /\ ScannedAfter
    /\ Len(m.rangeDelSkl) = 2
    /\ Len(rl[1].tombstones) = 3

PrepareFails(w) ==
    /\ wl[w].pc = "prepCheck"
    /\ wl'[w].pc = "idle"
    /\ wl'[w].err = "ErrArenaFull"

\* C2 as stated: a prepare that fails with ErrArenaFull leaves reserved as
\* it was when the call began.
C2_AsStated ==
    [][\A w \in Writers :
          PrepareFails(w) => m'.reserved = wl[w].reserved0 /\ m'.refs = m.refs]_vars

\* C2: no step of a prepare call but its closing m.ref() changes refs, and a
\* prepare that fails with ErrArenaFull leaves refs alone and leaves reserved
\* as it was when the call began unless the call loaded refs == 1, and then
\* reserved is the a.Size() the call stored.
C2_Prepare ==
    [][\A w \in Writers :
          /\ (InPrepare(wl[w]) /\ wl'[w] # wl[w] /\ wl[w].pc # "prepRef")
                => m'.refs = m.refs
          /\ PrepareFails(w) =>
                /\ m'.refs = m.refs
                /\ m'.reserved = IF wl[w].refs1 THEN wl[w].snap
                                 ELSE wl[w].reserved0]_vars

\* A second prepare of a writer loaded refs == 1, lowered reserved to the
\* arena's size and failed with ErrArenaFull.
C2_Witness ==
    \E w \in Writers :
        /\ wl[w].pc = "idle"
        /\ wl[w].op = "prepare"
        /\ wl[w].err = "ErrArenaFull"
        /\ wl[w].refs1
        /\ wl[w].calls = 2
        /\ m.reserved = wl[w].snap
        /\ m.reserved < wl[w].reserved0

ApplyArenaFull(w) == wl[w].op = "apply" /\ wl[w].err = "ErrArenaFull"

\* C3: while the creator holds its reference and the writers follow prepare,
\* apply, unref with their prepares serialized, reserved never exceeds the
\* capacity of the arena, the arena never holds more than is reserved once
\* a prepare has succeeded, and no apply of a prepared batch returns
\* ErrArenaFull.
C3_Reserved ==
    hist.creatorHeld =>
        /\ m.reserved <= m.capacity
        /\ m.arenaSize <= m.capacity
        /\ \A w \in Writers : ~ApplyArenaFull(w)

\* The creator holds its reference, a prepare has lowered reserved to the
\* arena's size, and afterwards both writers hold prepared batches, one of
\* them applied without error while the other is still being applied.
C3_Witness ==
    /\ hist.creatorHeld
    /\ hist.snapped
    /\ \E w \in Writers, v \in Writers :
          /\ w # v
          /\ wl[w].pc = "unref" /\ wl[w].op = "apply" /\ wl[w].err = "nil"
          /\ InApply(wl[v])
          /\ wl[v].i > 1

\* C4: the unref calls that return true are the decrements that land on 0
\* and the ones that panic are the decrements that land below 0; while no
\* ref() has followed refs reaching 0, exactly one unref has returned true
\* once refs has reached 0 and none before.
C4_Unref ==
    /\ hist.flushed = hist.zeros
    /\ hist.panics = hist.below
    /\ ~hist.refAfterZero =>
          hist.flushed = (IF hist.hitZero THEN 1 ELSE 0)

\* References were taken and dropped beside the writers, one unref returned
\* true, and a further unref then panicked.
C4_Witness ==
    /\ ~hist.refAfterZero
    /\ hist.dropped > 0
    /\ \E w \in Writers : wl[w].calls > 0
    /\ hist.flushed = 1
    /\ hist.panics = 1
    /\ m.refs < 0

\* C5: while a writer holds the reference of a successful prepare that it has
\* not yet dropped with unref, readyForFlush() is false.
C5_NotReady ==
    \A w \in Writers : wl[w].held => ~readyForFlush(m)

\* The creator has dropped its reference and the only reference left is that
\* of a writer whose batch is being applied.
C5_Witness ==
    /\ ~hist.creatorHeld
    /\ m.refs = 1
    /\ \E w \in Writers : wl[w].held /\ InApply(wl[w]) /\ wl[w].i > 1

\* C6 as stated: the lengths of the slices installed into tombstones.vals
\* never decrease.
C6_AsStated ==
    \A i \in 1..(Len(hist.installs) - 1) :
        hist.installs[i] <= hist.installs[i + 1]

\* C7 as stated: no newRangeDelIter call faults.
C7_AsStated == \A r \in Readers : rl[r].pc # "panic"

\* The (user key, sequence number) pairs the tombstones of list cover.
Covered(list) ==
    {<<k, list[i].seq>> : <<k, i>> \in
        {x \in (0..MaxFragKey) \X (1..Len(list)) :
            list[x[2]].ukey <= x[1] /\ x[1] < list[x[2]].value}}

IdenticalOrDisjoint(a, b) ==
    \/ a.ukey = b.ukey /\ a.value = b.value
    \/ a.value <= b.ukey
    \/ b.value <= a.ukey

\* C11: the range-del iterator of a memtable holding possibly overlapping
\* range tombstones yields non-empty fragments whose ranges are pairwise
\* identical or disjoint, ordered by start ascending and then sequence number
\* descending, and covering exactly the (user key, sequence number) pairs the
\* applied tombstones cover.
C11_Fragments ==
    (AppliedOk /\ ScannedAfter) =>
        LET T == rl[1].tombstones
        IN  /\ rl[1].ret = "iter"
            /\ \A i \in 1..Len(T) : T[i].ukey < T[i].value
            /\ \A i, j \in 1..Len(T) : IdenticalOrDisjoint(T[i], T[j])
            /\ \A i \in 1..(Len(T) - 1) :
                 \/ T[i].ukey < T[i + 1].ukey
                 \/ T[i].ukey = T[i + 1].ukey /\ T[i].seq > T[i + 1].seq
            /\ Covered(T) = Covered(m.rangeDelSkl)
            /\ Covered(T) = Covered([i \in 1..Len(hist.call.batch) |->
                   MakeInternalKey(hist.call.batch[i].ukey, hist.call.seqNum + i - 1,
                                   InternalKeyKindRangeDelete,
                                   hist.call.batch[i].value)])

\* The tombstones a..m@3, f..s@2, j..z@1 (a,f,j,m,s,z = 0..5) become the nine
\* fragments a-f#3, f-j#3, f-j#2, j-m#3, j-m#2, j-m#1, m-s#2, m-s#1, s-z#1.
C11_Witness ==
    /\ AppliedOk
    /\ ScannedAfter
    /\ hist.call.seqNum = 1
    /\ hist.call.batch = <<BatchEntry(InternalKeyKindRangeDelete, 2, 5),
                           BatchEntry(InternalKeyKindRangeDelete, 1, 4),
                           BatchEntry(InternalKeyKindRangeDelete, 0, 3)>>
    /\ [i \in 1..Len(rl[1].tombstones) |->
          <<rl[1].tombstones[i].ukey, rl[1].tombstones[i].value,
            rl[1].tombstones[i].seq>>]
       = << <<0, 1, 3>>, <<1, 2, 3>>, <<1, 2, 2>>, <<2, 3, 3>>, <<2, 3, 2>>,
            <<2, 3, 1>>, <<3, 4, 2>>, <<3, 4, 1>>, <<4, 5, 1>> >>

\* C18: once every set/apply that added a range tombstone has returned, a
\* newRangeDelIter call that starts now returns a fragment sequence covering
\* every tombstone of the range-del skiplist: no interleaving of earlier
\* newRangeDelIter calls with the writer has left a cached sequence that
\* omits an added tombstone.
C18_AsStated ==
    (wl[1].pc = "idle" /\ m.rangeDelSkl # <<>>) =>
        LET r == RRun(m, RangeDelIterCall(ReaderIdle), 1)
        IN  /\ r.l.ret = "iter"
            /\ Covered(m.rangeDelSkl) \subseteq Covered(r.l.tombstones)

(***************************************************************************)
(* The level iterator.                                                     *)
(***************************************************************************)
PositioningOps == {"SeekGE", "SeekLT", "First", "Last", "Next", "Prev"}

ReturnedTrue == lit.op \in PositioningOps /\ lit.ret

OnBoundary == lit.boundary # InvalidInternalKey

\* C12: in every state reached by SeekGE, SeekLT, First, Last, Next, Prev and
\* Close, iter and boundary are never both non-nil, and when the last call
\* returned true or Valid() is true exactly one of them is non-nil.
C12_IterOrBoundary ==
    /\ ~(lit.iter # NilIter /\ OnBoundary)
    /\ (ReturnedTrue \/ Valid(lit)) => (lit.iter # NilIter) # OnBoundary

\* Next has left the last entry of a file for the file's largest key, a range
\* tombstone's end: the position is valid with iter nil and boundary set.
C12_Witness ==
    /\ lit.op = "Next"
    /\ lit.ret
    /\ Valid(lit)
    /\ lit.iter = NilIter
    /\ lit.boundary = lit.files[lit.index + 1].largest

\* The files that may hold key or a greater key: largest user key above key,
\* or equal to it under a trailer other than the range-delete sentinel.
FilesGE(key) ==
    {i \in 0..(Len(lit.files) - 1) :
        LET largest == lit.files[i + 1].largest
        IN  \/ largest.ukey > key
            \/ /\ largest.ukey = key
               /\ EntryTrailer(largest) # InternalKeyRangeDeleteSentinel}

\* The files whose largest key is exactly (key, sentinel).
SentinelFiles(key) ==
    {i \in 0..(Len(lit.files) - 1) :
        /\ lit.files[i + 1].largest.ukey = key
        /\ EntryTrailer(lit.files[i + 1].largest) = InternalKeyRangeDeleteSentinel}

\* C13: over sorted, non-overlapping files findFileGE(k) is the smallest index
\* whose file has largest user key > k, or = k under a non-sentinel trailer,
\* and len(files) when there is none; SeekGE(k) never opens a file whose
\* largest key is (k, sentinel): the search selects the file after it.
C13_FindFileGE ==
    /\ \A k \in SeekKeys :
         /\ findFileGE(lit, k) \in FilesGE(k) \cup {Len(lit.files)}
         /\ \A i \in FilesGE(k) : findFileGE(lit, k) <= i
         /\ \A i \in SentinelFiles(k) : findFileGE(lit, k) = i + 1
    /\ lit.op = "SeekGE" =>
         \A i \in SentinelFiles(lit.arg) :
            /\ <<"open", i>> \notin Range(lit.log)
            /\ lit.ret => lit.index > i

\* SeekGE(k) over a file X with largest (k, sentinel) followed by a file Y has
\* returned true on an entry of Y.
C13_Witness ==
    /\ lit.op = "SeekGE"
    /\ lit.ret
    /\ lit.faults = 0
    /\ SentinelFiles(lit.arg) = {0}
    /\ lit.index = 1
    /\ lit.iter.file = 1
    /\ Key(lit).ukey = lit.arg

\* The iterator stands on an entry of its file, open and without error.
OnEntry ==
    /\ lit.iter # NilIter
    /\ ~lit.iter.closed
    /\ lit.err = NilErr
    /\ IterValid(lit)

\* The first and the last key a file shows to a consumer that installed the
\* slot: its point entries, or its range-delete boundary when it has none.
FirstShown(f) == IF f.keys # <<>> THEN f.keys[1] ELSE f.largest
LastShown(f) == IF f.keys # <<>> THEN f.keys[Len(f.keys)] ELSE f.smallest

\* After r the iterator stands on the boundary key b of file index.
AtBoundary(r, b, index) ==
    /\ r.ret
    /\ Key(r.l) = b
    /\ Value(r.l) = 0
    /\ Valid(r.l)
    /\ r.l.iter = NilIter
    /\ r.l.index = index
    /\ r.l.slot = index

\* C14: with the slot installed, Next from the last entry of a file whose
\* largest key is a RANGEDEL returns true on that key (Value nil, iter nil,
\* the file's range-del iterator still in the slot), and the Next after it
\* leaves the boundary for the first key of the next file or returns false;
\* likewise Prev from the first entry of a file whose smallest key is a
\* RANGEDEL, and the Prev after it.  A call that returned true on a boundary
\* stands on the largest or smallest key of the file at index.
C14_Boundary ==
    /\ (ReturnedTrue /\ OnBoundary) =>
          /\ lit.hasSlot
          /\ lit.boundary.kind = InternalKeyKindRangeDelete
          /\ lit.boundary \in {lit.files[lit.index + 1].largest,
                               lit.files[lit.index + 1].smallest}
          /\ AtBoundary([l |-> lit, ret |-> lit.ret], lit.boundary, lit.index)
    /\ (OnEntry /\ lit.hasSlot) =>
          LET f == lit.files[lit.index + 1]
              n == Len(lit.files)
          IN  /\ (lit.iter.pos = Len(f.keys)
                  /\ f.largest.kind = InternalKeyKindRangeDelete) =>
                    LET r == Next(lit, OkOracle)
                        r2 == Next(r.l, OkOracle)
                    IN  /\ AtBoundary(r, f.largest, lit.index)
                        /\ r2.l.boundary # f.largest
                        /\ r2.ret =>
                             /\ r2.l.index = lit.index + 1
                             /\ Key(r2.l) = FirstShown(lit.files[lit.index + 2])
                        /\ ~r2.ret => ~Valid(r2.l)
              /\ (lit.iter.pos = 1
                  /\ f.smallest.kind = InternalKeyKindRangeDelete) =>
                    LET r == Prev(lit, OkOracle)
                        r2 == Prev(r.l, OkOracle)
                    IN  /\ AtBoundary(r, f.smallest, lit.index)
                        /\ r2.l.boundary # f.smallest
                        /\ r2.ret =>
                             /\ r2.l.index = lit.index - 1
                             /\ Key(r2.l) = LastShown(lit.files[lit.index])
                        /\ ~r2.ret => ~Valid(r2.l)

\* Next has run off the last SET of the first of two files onto the file's
\* largest key, a range tombstone's end, and the file's range-del iterator is
\* still in the slot.
C14_Witness ==
    /\ lit.op = "Next"
    /\ lit.ret
    /\ lit.faults = 0
    /\ lit.hasSlot
    /\ Len(lit.files) = 2
    /\ lit.index = 0
    /\ lit.files[1].keys # <<>>
    /\ Key(lit) = lit.files[1].largest
    /\ Key(lit).kind = InternalKeyKindRangeDelete
    /\ Value(lit) = 0
    /\ lit.slot = 0
    /\ lit.log = << <<"close", 0>> >>

\* Every way the collaborators may answer during a call.
AllOracles ==
    [open : {"ok", "err", "nil"}, closeErr : BOOLEAN, rdCloseErr : BOOLEAN,
     zombie : BOOLEAN]

\* C15: after Close no file iterator is held and the slot is nil; a second
\* Close, whatever the collaborators would answer, returns the error the
\* first returned, opens and closes nothing and leaves the iterator as it is.
C15_Close ==
    lit.op = "Close" =>
        /\ lit.iter = NilIter
        /\ lit.slot = NilSlot
        /\ lit.closeRet = lit.err
        /\ lit.closes = 2 => lit.log = <<>>
        /\ \A o \in AllOracles :
             LET r == Close(Calling(lit), o)
             IN  /\ r.ret = lit.closeRet
                 /\ r.l = Calling(lit)

\* Close has been called twice in a row on an iterator that held a file
\* iterator whose Close failed: the second call returned that error again.
C15_Witness ==
    /\ lit.op = "Close"
    /\ lit.closes = 2
    /\ lit.closeRet.kind = "close"
    /\ lit.index >= 0
    /\ lit.log = <<>>

\* The iterators every call can leave behind from l.
AfterAnyCall(l) ==
    {SeekGE(l, x[1], x[2]).l : x \in SeekKeys \X AllOracles}
    \cup {SeekLT(l, x[1], x[2]).l : x \in SeekKeys \X AllOracles}
    \cup {First(l, o).l : o \in AllOracles}
    \cup {Last(l, o).l : o \in AllOracles}
    \cup {Next(l, o).l : o \in AllOracles}
    \cup {Prev(l, o).l : o \in AllOracles}
    \cup {Close(l, o).l : o \in AllOracles}

\* C16: once err is set, no later call replaces or clears it, Error() returns
\* it, and Close() returns it rather than the result of closing the file
\* iterator or the range-del iterator during Close.
C16_AsStated ==
    lit.err # NilErr =>
        /\ Error(lit) = lit.err
        /\ \A l2 \in AfterAnyCall(Calling(lit)) : l2.err = lit.err
        /\ \A o \in AllOracles : Close(Calling(lit), o).ret = lit.err

\* C17: while err is set, Next and Prev return false, whatever the
\* collaborators would answer, open and close no file and leave index, iter,
\* boundary, err and the slot as they are.
C17_NoOp ==
    /\ lit.err # NilErr =>
         \A o \in AllOracles :
            /\ Next(Calling(lit), o) = [l |-> Calling(lit), ret |-> FALSE]
            /\ Prev(Calling(lit), o) = [l |-> Calling(lit), ret |-> FALSE]
    /\ (lit.op \in {"Next", "Prev"} /\ lit.err # NilErr /\ lit.log = <<>>) => ~lit.ret

\* Next was called on an iterator that still holds the file iterator whose
\* Close failed: it returned false and called no collaborator.
C17_Witness ==
    /\ lit.op = "Next"
    /\ ~lit.ret
    /\ lit.err.kind = "close"
    /\ lit.iter # NilIter
    /\ lit.iter.closed
    /\ lit.log = <<>>

\* What a caller sees after a call that returned r.
Seen(r) == <<r.ret, Key(r.l), Value(r.l), r.l.slot>>

\* A freshly initialized iterator over the files and bounds of l.
Fresh(l) == newLevelIter(l.files, l.lower, l.upper, l.hasSlot)

\* No collaborator has failed so far.
ErrorFree == lit.faults = 0 /\ lit.err = NilErr

\* C19: in every state reached by an error-free sequence of calls, SeekGE(k),
\* SeekLT(k), First and Last return the same boolean, Key(), Value() and slot
\* contents as the same call on a freshly initialized iterator.
C19_AsStated ==
    ErrorFree =>
        /\ \A k \in SeekKeys :
             /\ Seen(SeekGE(Calling(lit), k, OkOracle))
                  = Seen(SeekGE(Fresh(lit), k, OkOracle))
             /\ Seen(SeekLT(Calling(lit), k, OkOracle))
                  = Seen(SeekLT(Fresh(lit), k, OkOracle))
        /\ Seen(First(Calling(lit), OkOracle)) = Seen(First(Fresh(lit), OkOracle))
        /\ Seen(Last(Calling(lit), OkOracle)) = Seen(Last(Fresh(lit), OkOracle))

\* C20: from every valid position reached without a failure, if Prev returns
\* true then the Next after it returns true on the original key, and if Next
\* returns true then the Prev after it returns true on the original key.
C20_AsStated ==
    (ErrorFree /\ ReturnedTrue) =>
        /\ LET p == Prev(Calling(lit), OkOracle)
               n == Next(p.l, OkOracle)
           IN  p.ret => n.ret /\ Key(n.l) = Key(lit)
        /\ LET n == Next(Calling(lit), OkOracle)
               p == Prev(n.l, OkOracle)
           IN  n.ret => p.ret /\ Key(p.l) = Key(lit)

(***************************************************************************)
(* Full scans of a level.                                                  *)
(***************************************************************************)
\* The file lies wholly outside the iterator's bounds.
OutOfBounds(l, f) ==
    \/ l.lower # NoBound /\ f.largest.ukey < l.lower
    \/ l.upper # NoBound /\ f.smallest.ukey >= l.upper

\* The point entries of the in-bounds files among the first n, in file order.
RECURSIVE InBoundsPoints(_, _)
InBoundsPoints(l, n) ==
    IF n = 0 THEN <<>>
    ELSE InBoundsPoints(l, n - 1) \o
         (IF OutOfBounds(l, l.files[n]) THEN <<>> ELSE l.files[n].keys)

Reverse(q) == [i \in 1..Len(q) |-> q[Len(q) + 1 - i]]

IsPoint(k) == k.kind # InternalKeyKindRangeDelete

\* The index (from 1) of the file that holds the point entry k.
FileOf(l, k) == CHOOSE i \in 1..Len(l.files) : k \in Range(l.files[i].keys)

ForwardDone == lit.op \in {"First", "Next"} /\ ~lit.ret
BackwardDone == lit.op \in {"Last", "Prev"} /\ ~lit.ret

\* C21: once First followed by Next has returned false, the keys surfaced are
\* in strictly ascending internal-key order, the point entries among them are
\* the point entries of the in-bounds files, each once, and every boundary key
\* among them is the largest key of an in-bounds file, after that file's point
\* entries and before the next file's; once Last followed by Prev has returned
\* false, the point entries surfaced are the same ones in reverse order.
C21_Scan ==
    /\ ForwardDone =>
         /\ \A i, j \in 1..Len(hist) : i < j => InternalLess(hist[i], hist[j])
         /\ SelectSeq(hist, IsPoint) = InBoundsPoints(lit, Len(lit.files))
         /\ \A p \in 1..Len(hist) : ~IsPoint(hist[p]) =>
              \E i \in 1..Len(lit.files) :
                 /\ ~OutOfBounds(lit, lit.files[i])
                 /\ hist[p] = lit.files[i].largest
                 /\ \A q \in 1..Len(hist) : IsPoint(hist[q]) =>
                       (q < p <=> FileOf(lit, hist[q]) <= i)
    /\ BackwardDone =>
         SelectSeq(hist, IsPoint) = Reverse(InBoundsPoints(lit, Len(lit.files)))

\* A forward scan is over on a level of two in-bounds files, the first with no
\* point entry, with the slot installed: the first file's boundary key and the
\* second file's point entries have been surfaced, the boundary key first.
C21_Witness ==
    /\ ForwardDone
    /\ lit.hasSlot
    /\ Len(lit.files) = 2
    /\ lit.files[1].keys = <<>>
    /\ lit.files[2].keys # <<>>
    /\ Len(hist) > Len(lit.files[2].keys)
    /\ hist[1] = lit.files[1].largest

(***************************************************************************)
(* loadFile and the bounds.                                                *)
(***************************************************************************)
BelowLower(l, i) == l.lower # NoBound /\ l.files[i + 1].largest.ukey < l.lower
AboveUpper(l, i) == l.upper # NoBound /\ l.files[i + 1].smallest.ukey >= l.upper

\* The files a call opened, in order.
Opened(l) == SelectSeq(l.log, LAMBDA ev : ev[1] = "open")

\* The index loadFile stops at: travelling forward the first file from index
\* on that is not below the lower bound, travelling backward the first file
\* from index down that is not at or above the upper bound; the index past
\* the end it ran off when there is none.
StopIndex(l, index, dir) ==
    IF index < 0 \/ index >= Len(l.files) THEN index
    ELSE IF dir > 0
    THEN LET c == {i \in index..(Len(l.files) - 1) : ~BelowLower(l, i)}
         IN  IF c = {} THEN Len(l.files)
             ELSE CHOOSE i \in c : \A j \in c : i <= j
    ELSE LET c == {i \in 0..index : ~AboveUpper(l, i)}
         IN  IF c = {} THEN 0 - 1
             ELSE CHOOSE i \in c : \A j \in c : i >= j

C23_AsStated ==
    ~InApply(wl[1]) =>
        /\ m.count = Len(m.rangeDelSkl)
        /\ RRun(m, RangeDelIterCall(ReaderIdle), 1).l.ret = "nil"
              <=> m.rangeDelSkl = <<>>

(***************************************************************************)
(* An insert that fails in the middle of apply.                            *)
(***************************************************************************)
AppliedErr == hist.call.op = "apply" /\ wl[1].err # "nil"

\* The first j entries of the last apply's batch as apply keys them.
ApplyPrefix(j) ==
    {MakeInternalKey(hist.call.batch[i].ukey, hist.call.seqNum + i - 1,
                     hist.call.batch[i].kind, hist.call.batch[i].value) :
        i \in 1..j}

\* The skiplists hold what they held before the call and the first j entries
\* of the batch, with the sequence numbers seqNum .. seqNum + j - 1.
InsertedUpTo(j) ==
    /\ Range(m.skl) = Range(hist.call.skl)
          \cup {e \in ApplyPrefix(j) : e.kind # InternalKeyKindRangeDelete}
    /\ Range(m.rangeDelSkl) = Range(hist.call.rangeDelSkl)
          \cup {e \in ApplyPrefix(j) : e.kind = InternalKeyKindRangeDelete}
    /\ Len(m.skl) + Len(m.rangeDelSkl)
          = Len(hist.call.skl) + Len(hist.call.rangeDelSkl) + j

\* Entry j (from 0) of the last apply's batch is the first whose insert fails:
\* its internal key is already stored, or the arena has no room for it.
FailsAt(j) ==
    /\ j < Len(hist.call.batch)
    /\ InsertedUpTo(j)
    /\ LET e == MakeInternalKey(hist.call.batch[j + 1].ukey, hist.call.seqNum + j,
                                hist.call.batch[j + 1].kind,
                                hist.call.batch[j + 1].value)
           list == IF e.kind = InternalKeyKindRangeDelete THEN m.rangeDelSkl
                   ELSE m.skl
       IN  IF \E x \in Range(list) : SameInternalKey(x, e)
           THEN wl[1].err = "ErrRecordExists"
           ELSE wl[1].err = "ErrArenaFull"

\* C24: when apply returns an error, an insert failed at some batch entry j:
\* the entries before j are stored with the sequence numbers
\* start_seq .. start_seq + j - 1, entry j and the entries after it are not
\* inserted, the error is the failed insert's, and apply did not panic.
C24_FailedApply ==
    AppliedErr =>
        /\ wl[1].pc # "panic"
        /\ \E j \in 0..(Len(hist.call.batch) - 1) : FailsAt(j)

\* A batch of two entries whose second insert failed: the first entry is
\* stored with the call's sequence number.
C24_Witness ==
    /\ AppliedErr
    /\ Len(hist.call.batch) = 2
    /\ FailsAt(1)
    /\ ApplyPrefix(1) \subseteq Range(m.skl) \cup Range(m.rangeDelSkl)
    /\ ApplyPrefix(1) \cap (Range(hist.call.skl) \cup Range(hist.call.rangeDelSkl)) = {}

\* A batch of two entries whose first insert failed: nothing was inserted.
C24_WitnessFirst ==
    /\ AppliedErr
    /\ Len(hist.call.batch) = 2
    /\ FailsAt(0)
    /\ m.skl = hist.call.skl
    /\ m.rangeDelSkl = hist.call.rangeDelSkl

(***************************************************************************)
(* The level iterator without a range-del slot.                            *)
(***************************************************************************)
\* C25: with no range-del slot installed the boundary is nil in every state,
\* and whenever the last call returned true or Valid() is true the iterator
\* is on a point entry of the file it has open, also when files have a
\* smallest or largest key of kind RANGEDEL.
C25_NoSlot ==
    ~lit.hasSlot =>
        /\ ~OnBoundary
        /\ lit.slot = NilSlot
        /\ (ReturnedTrue \/ Valid(lit)) =>
              /\ lit.iter # NilIter
              /\ lit.iter.file = lit.index
              /\ Key(lit) \in Range(lit.files[lit.index + 1].keys)
              /\ IsPoint(Key(lit))

\* With no slot, Next has left a first file whose largest key is a range
\* tombstone's end and stands on the first point entry of the second file.
C25_Witness ==
    /\ ~lit.hasSlot
    /\ lit.op = "Next"
    /\ lit.ret
    /\ lit.index = 1
    /\ lit.files[1].largest.kind = InternalKeyKindRangeDelete
    /\ lit.log = <<<<"close", 0>>, <<"open", 1>>>>
    /\ Key(lit) = lit.files[2].keys[1]

(***************************************************************************)
(* The lifetime of the file iterators.                                     *)
(***************************************************************************)
\* C26 as stated: within a call a file is opened only after the file opened
\* before it was closed, no call closes again the file iterator that an
\* earlier call closed, and after Close no file iterator is held.
C26_AsStated ==
    /\ \A e1, e2 \in 1..Len(lit.log) :
          e1 < e2 /\ lit.log[e1][1] = "open" /\ lit.log[e2][1] = "open" =>
             \E c \in (e1 + 1)..(e2 - 1) : lit.log[c] = <<"close", lit.log[e1][2]>>
    /\ lit.iter.closed =>
          \A l2 \in AfterAnyCall(Calling(lit)) :
             l2.log = <<>> \/ l2.log[1] # <<"close", lit.iter.file>>
    /\ lit.op = "Close" => lit.iter = NilIter

====
